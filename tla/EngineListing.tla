---------------------------- MODULE EngineListing ----------------------------
(***************************************************************************)
(* The engine EngineLoad made, as the clients of GET /v1/models find it:   *)
(* what the listing says of a model against the model that a request       *)
(* naming it runs on.                                                      *)
(***************************************************************************)
EXTENDS EngineLoad

CONSTANTS
  Configured,   \* --chunk-max-sec, as in ModelCatalogue
  Margin        \* MODEL_WINDOW_MARGIN_SEC

ASSUME ChunkLengthAssumption == Configured \in Nat /\ Margin \in Nat \ {0}

Infos(l) == [i \in DOMAIN models[l] |-> models[l][i].info]

INSTANCE ModelCatalogue

ASSUME CapabilitiesAssumption == \A path \in DOMAIN FileStem :
  Capabilities[path] \in [arch : STRING, translates : BOOLEAN, targets : Seq(Code), limit : Int]

(* What GET /v1/models says of a model holds of the model a request naming *)
(* it runs on.                                                             *)
Kept(l, object) ==
  LET model == ResolveModel(Infos(l), object.id)
  IN  /\ object.translates <=> ~TranslationRefused(model, None)
      /\ "targets" \in DOMAIN object /\ object.translates =>
           \A i \in DOMAIN object.targets : ~TranslationRefused(model, object.targets[i])
      /\ "limit" \in DOMAIN object => ChunkMax(model) < object.limit

ListingKept(l) == pc[l] = "ready" => \A i \in DOMAIN Infos(l) : Kept(l, ModelObject(Infos(l)[i]))

Distinct(aliases) == \A i, j \in DOMAIN aliases : aliases[i].alias = aliases[j].alias => i = j

(* A client that picks a model by what the listing says of it gets it, as  *)
(* long as the configured aliases differ (models.rs: "so a client can pick *)
(* a model by what it can actually do").                                   *)
ListingHolds == \A l \in Loaders : Distinct(Specs(l)) => ListingKept(l)

(* ... and whatever the aliases, which is what the comment says. *)
ListingAlwaysHolds == \A l \in Loaders : ListingKept(l)
=============================================================================
