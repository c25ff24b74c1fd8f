--------------------------- MODULE ModelCatalogue ---------------------------
(***************************************************************************)
(* The loaded models as the HTTP layer and the engine consult them: which  *)
(* one a request runs on, whether it can translate, how a target language  *)
(* is spelled, and how long a chunk it may be handed.                      *)
(* "models" is the catalogue, in the order of the configuration.           *)
(*                                                                         *)
(* A language code is a record: the language it names, whether it is       *)
(* written in capitals, and whether it carries surrounding space.          *)
(***************************************************************************)
EXTENDS Integers, SequencesExt

CONSTANTS
  Configured,  \* --chunk-max-sec, in samples
  Margin,      \* MODEL_WINDOW_MARGIN_SEC, in samples
  None         \* an optional value that is not there

ASSUME ChunkAssumption == Configured \in Nat /\ Margin \in Nat \ {0}

Code == [name : STRING, upper : BOOLEAN, spaced : BOOLEAN]

ASSUME CodeAssumption == None \notin Code

LanguageEq(a, b) == a.name = b.name
Trim(l) == [l EXCEPT !.spaced = FALSE]

(* Mutant of ResolveModel: an unknown alias runs on the last model. *)
ResolveLast(models, alias) ==
  LET i == SelectInSeq(models, LAMBDA m : m.id = alias)
  IN  models[IF i = 0 THEN Len(models) ELSE i]

(* The model a request naming alias runs on, as the HTTP layer asks for it: *)
(* the first is the default.                                                *)
ResolveModel(models, alias) ==
  LET i == SelectInSeq(models, LAMBDA m : m.id = alias)
  IN  models[IF i = 0 THEN 1 ELSE i]

(* The engine applies its own copy of the rule when the run begins. *)
EngineResolve(models, alias) ==
  IF \E i \in DOMAIN models : models[i].id = alias
  THEN models[CHOOSE i \in DOMAIN models : models[i].id = alias /\ \A j \in 1..(i - 1) : models[j].id # alias]
  ELSE models[1]

(* The model cannot translate at all, or lists its targets and not this    *)
(* one.  An empty list claims nothing.                                     *)
TranslationRefused(model, target) ==
  \/ ~model.translates
  \/ /\ target # None
     /\ model.targets # <<>>
     /\ ~\E i \in DOMAIN model.targets : LanguageEq(model.targets[i], target)

(* The model's own spelling of the target, if it lists it. *)
CanonicalTarget(model, target) ==
  LET i == SelectInSeq(model.targets, LAMBDA l : LanguageEq(l, target))
  IN  IF i = 0 THEN Trim(target) ELSE model.targets[i]

(* What GET /v1/models says of a model: a field the model does not report  *)
(* is left out, not sent empty.                                            *)
ModelObject(model) ==
  LET silent == {key \in {"targets", "limit"} :
        \/ key = "targets" /\ model.targets = <<>>
        \/ key = "limit" /\ model.limit = 0}
  IN  [key \in DOMAIN model \ silent |-> model[key]]

(* The language of a translation whose request named none. *)
SingleTarget(model) == IF Len(model.targets) = 1 THEN model.targets[1] ELSE None

(* Mutant of WindowInside: the model's limit, used to its last sample. *)
WholeLimit(limit) == limit

(* The longest chunk that stays clear of a limit, never under half of it.  *)
WindowInside(limit) == IF 2 * (limit - Margin) >= limit THEN limit - Margin ELSE limit \div 2

(* The chunk length for a model: the configured one, lowered to the limit  *)
(* the model reports; 0 is no limit.                                       *)
ChunkMax(model) ==
  IF model.limit > 0 /\ WindowInside(model.limit) < Configured
  THEN WindowInside(model.limit) ELSE Configured
=============================================================================
