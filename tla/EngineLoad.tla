----------------------------- MODULE EngineLoad -----------------------------
(***************************************************************************)
(* What has to happen before a model can be used: TranscribeCppEngine::    *)
(* load, as build_engine calls it, and print_devices, which share the      *)
(* registration of the backends.  Several threads of one process may be at *)
(* it at once ("two engines, parallel tests"); the registration happens    *)
(* once, under an OnceLock, and its outcome is everybody's.                *)
(*                                                                         *)
(* A --model argument is the alias written before `=', if any, and a path; *)
(* a device is what the registry says of it, its index included.           *)
(***************************************************************************)
EXTENDS Integers, Sequences

CONSTANTS
  Loaders,      \* threads that load an engine or list the devices
  Requests,     \* what each may be asked for: [what, args, no_gpu, device]
  Registries,   \* what the library may find registered
  FileStem,     \* the file stem of each path, None for a path without one
  Capabilities, \* what the library reports of the model at a path
  None          \* an optional value that is not there

ASSUME RegistriesAssumption == \A r \in Registries : r \in Seq([index : Nat \cup {None}, type : STRING])
ASSUME RequestsAssumption == \A r \in Requests :
  /\ r.what \in {"load", "list"} /\ r.args \in Seq([alias : STRING \cup {None}, path : DOMAIN FileStem])
  /\ r.no_gpu \in BOOLEAN /\ r.device \in Nat \cup {None}
ASSUME NoneAssumption == None \notin Nat \cup [index : Nat \cup {None}, type : STRING]

VARIABLES
  want,      \* what each thread was asked for
  pc,        \* where it is
  backends,  \* the OnceLock of init_backends
  registry,  \* the devices the library knows of
  options,   \* ModelOptions, once resolved
  models     \* TranscribeCppEngine.models, as far as loaded

vars == <<want, pc, backends, registry, options, models>>

Points == {"begin", "registering", "registered", "loading", "ready", "listed", "failed"}

Init ==
  /\ want \in [Loaders -> Requests]
  /\ pc = [l \in Loaders |-> "begin"]
  /\ backends = "unset"
  /\ registry = <<>>
  /\ options = [l \in Loaders |-> None]
  /\ models = [l \in Loaders |-> <<>>]

Goto(l, point) == pc' = [pc EXCEPT ![l] = point]

----------------------------------------------------------------------------
(* The configuration.                                                      *)

(* model_specs: a bare path is known by its file stem. *)
ModelSpecs(args) == [i \in DOMAIN args |->
  [path |-> args[i].path,
   alias |-> IF args[i].alias # None THEN args[i].alias
             ELSE IF FileStem[args[i].path] # None THEN FileStem[args[i].path] ELSE args[i].path]]

Specs(l) == ModelSpecs(want[l].args)

(* Mutant of ModelInfo: the model goes by the name of its file. *)
InfoByStem(spec) ==
  LET caps == Capabilities[spec.path]
  IN  [id |-> FileStem[spec.path], arch |-> caps.arch, translates |-> caps.translates,
       targets |-> caps.targets, limit |-> IF caps.limit > 0 THEN caps.limit ELSE 0]

(* model_info: what the library reports, under the configured alias; a     *)
(* limit that is not positive is none.                                     *)
ModelInfo(spec) ==
  LET caps == Capabilities[spec.path]
  IN  [id |-> spec.alias, arch |-> caps.arch, translates |-> caps.translates,
       targets |-> caps.targets, limit |-> IF caps.limit > 0 THEN caps.limit ELSE 0]

----------------------------------------------------------------------------
(* The registration.                                                       *)

(* build_engine and load: no model, no registration. *)
NoModels(l) ==
  /\ pc[l] = "begin" /\ want[l].what = "load" /\ want[l].args = <<>>
  /\ Goto(l, "failed")
  /\ UNCHANGED <<want, backends, registry, options, models>>

Begun(l) == pc[l] = "begin" /\ (want[l].what = "load" => want[l].args # <<>>)

(* The first to come runs the closure; whoever comes meanwhile waits. *)
Register(l) ==
  /\ Begun(l)
  /\ backends = "unset"
  /\ backends' = "registering"
  /\ Goto(l, "registering")
  /\ UNCHANGED <<want, registry, options, models>>

RegisterFails(l) ==
  /\ pc[l] = "registering"
  /\ backends' = "failed"
  /\ Goto(l, "failed")
  /\ UNCHANGED <<want, registry, options, models>>

RegisterSucceeds(l) ==
  /\ pc[l] = "registering"
  /\ backends' = "ok"
  /\ registry' \in Registries
  /\ Goto(l, "registered")
  /\ UNCHANGED <<want, options, models>>

(* Mutant of JoinRegistration: a Once, which tells the error to nobody but *)
(* the thread that ran the closure.                                        *)
JoinOnce(l) ==
  /\ Begun(l)
  /\ backends \in {"ok", "failed"}
  /\ Goto(l, "registered")
  /\ UNCHANGED <<want, backends, registry, options, models>>

(* Everybody else gets the outcome the lock holds. *)
JoinRegistration(l) ==
  /\ Begun(l)
  /\ backends \in {"ok", "failed"}
  /\ Goto(l, IF backends = "ok" THEN "registered" ELSE "failed")
  /\ UNCHANGED <<want, backends, registry, options, models>>

(* print_devices *)
List(l) ==
  /\ pc[l] = "registered" /\ want[l].what = "list"
  /\ Goto(l, "listed")
  /\ UNCHANGED <<want, backends, registry, options, models>>

----------------------------------------------------------------------------
(* The device.                                                             *)

(* Mutant of Matching: the index is taken as a position. *)
MatchingPosition(index) == {i \in DOMAIN registry : index # None /\ i = index + 1}

(* The devices that carry an index: enumeration skips slots it cannot      *)
(* query, so the index is not the position.                                *)
Matching(index) == {i \in DOMAIN registry : index # None /\ registry[i].index = index}

(* The device found for an index, the first that carries it. *)
Chosen(index, i) == i \in Matching(index) /\ \A j \in Matching(index) : i <= j

Usable(request, device) == device.type # "accel" /\ (request.no_gpu => device.type = "cpu")

(* resolve_model_options: an index nobody carries, an accelerator, or      *)
(* anything but a CPU under --no-gpu is an error.                          *)
DeviceRefused(request) ==
  /\ request.device # None
  /\ ~\E i \in DOMAIN registry : Chosen(request.device, i) /\ Usable(request, registry[i])

(* No --device, or the one that carries its index. *)
Device(request) ==
  IF \E i \in DOMAIN registry : Chosen(request.device, i)
  THEN registry[CHOOSE i \in DOMAIN registry : Chosen(request.device, i)] ELSE None

Options(request) ==
  [backend |-> IF request.no_gpu THEN "cpu" ELSE "auto", device |-> Device(request)]

Resolve(l) ==
  /\ pc[l] = "registered" /\ want[l].what = "load"
  /\ ~DeviceRefused(want[l])
  /\ options' = [options EXCEPT ![l] = Options(want[l])]
  /\ Goto(l, "loading")
  /\ UNCHANGED <<want, backends, registry, models>>

RefuseDevice(l) ==
  /\ pc[l] = "registered" /\ want[l].what = "load"
  /\ DeviceRefused(want[l])
  /\ Goto(l, "failed")
  /\ UNCHANGED <<want, backends, registry, options, models>>

----------------------------------------------------------------------------
(* The models, one after the other.                                        *)

Loaded(l, i) == [path |-> Specs(l)[i].path, options |-> options[l], info |-> ModelInfo(Specs(l)[i])]

LoadModel(l) ==
  /\ pc[l] = "loading" /\ Len(models[l]) < Len(want[l].args)
  /\ models' = [models EXCEPT ![l] = Append(@, Loaded(l, Len(models[l]) + 1))]
  /\ UNCHANGED <<want, pc, backends, registry, options>>

(* Mutant of ModelFails: the engine does with the models that load. *)
ModelSkipped(l) ==
  /\ pc[l] = "loading" /\ Len(models[l]) < Len(want[l].args) /\ models[l] # <<>>
  /\ Goto(l, "ready")
  /\ UNCHANGED <<want, backends, registry, options, models>>

(* The model or its session cannot be made: the load fails, and drops the  *)
(* models it had.                                                          *)
ModelFails(l) ==
  /\ pc[l] = "loading" /\ Len(models[l]) < Len(want[l].args)
  /\ models' = [models EXCEPT ![l] = <<>>]
  /\ Goto(l, "failed")
  /\ UNCHANGED <<want, backends, registry, options>>

Ready(l) ==
  /\ pc[l] = "loading" /\ Len(models[l]) = Len(want[l].args)
  /\ Goto(l, "ready")
  /\ UNCHANGED <<want, backends, registry, options, models>>

Step(l) ==
  \/ NoModels(l) \/ Register(l) \/ RegisterFails(l) \/ RegisterSucceeds(l) \/ JoinRegistration(l)
  \/ List(l) \/ Resolve(l) \/ RefuseDevice(l) \/ LoadModel(l) \/ ModelFails(l) \/ Ready(l)

Next == \E l \in Loaders : Step(l)

Spec == Init /\ [][Next]_vars

----------------------------------------------------------------------------
Devices == UNION {{r[i] : i \in DOMAIN r} : r \in Registries}

TypeOK ==
  /\ want \in [Loaders -> Requests]
  /\ pc \in [Loaders -> Points]
  /\ backends \in {"unset", "registering", "ok", "failed"}
  /\ registry \in Registries \cup {<<>>}
  /\ options \in [Loaders -> [backend : {"auto", "cpu"}, device : Devices \cup {None}] \cup {None}]
  /\ models = [l \in Loaders |-> models[l]]
  /\ \A l \in Loaders : models[l] \in Seq({Loaded(l, i) : i \in DOMAIN want[l].args})

Past == {"registered", "loading", "ready", "listed"}

(* Nobody lists devices, resolves one or loads a model unless the backends *)
(* were registered with success, also when the thread did not run the      *)
(* registration itself and came while another did (init_backends: "a       *)
(* `Once' hands the error to whoever ran the closure and Ok(()) to         *)
(* everyone who raced it").  One thread at most is inside it.              *)
RegisteredFirst ==
  /\ \A l \in Loaders : pc[l] \in Past => backends = "ok"
  /\ \A l, k \in Loaders : pc[l] = "registering" /\ pc[k] = "registering" => l = k
  /\ (\E l \in Loaders : pc[l] = "registering") => backends = "registering"

(* A model is loaded on the very device that was asked for, on the library's *)
(* choice only if none was, and never off the CPU under --no-gpu            *)
(* (resolve_model_options: "never a silent fall-back").                     *)
ExactDevice == \A l \in Loaders : \A i \in DOMAIN models[l] :
  LET used == models[l][i].options
      request == want[l]
  IN  /\ used.device = None <=> request.device = None
      /\ used.device # None => used.device.index = request.device /\ used.device.type # "accel"
      /\ request.no_gpu => used.backend = "cpu" /\ (used.device # None => used.device.type = "cpu")

(* An engine that is ready has every model it was configured with, in the  *)
(* order of the configuration, so that the first one is the default; one   *)
(* that could not load a model is not there at all.                        *)
ReadyIsWhole == \A l \in Loaders :
  /\ pc[l] = "ready" =>
       /\ Len(models[l]) = Len(want[l].args) /\ models[l] # <<>>
       /\ \A i \in DOMAIN models[l] :
            models[l][i].path = Specs(l)[i].path /\ models[l][i].info.id = Specs(l)[i].alias
  /\ pc[l] \in {"failed", "listed"} => models[l] = <<>>

(* The inductive invariant: a thread that is loading was asked to, on a    *)
(* device that may be used, and has loaded its first models as configured. *)
Order == \A l \in Loaders :
  /\ pc[l] \notin {"begin", "failed"} /\ want[l].what = "load" => want[l].args # <<>>
  /\ pc[l] \in {"loading", "ready"} =>
       want[l].what = "load" /\ ~DeviceRefused(want[l]) /\ options[l] = Options(want[l])
  /\ pc[l] \notin {"loading", "ready"} => models[l] = <<>>
  /\ Len(models[l]) <= Len(want[l].args)
  /\ pc[l] = "ready" => Len(models[l]) = Len(want[l].args)
  /\ \A i \in DOMAIN models[l] : models[l][i] = Loaded(l, i)

LInv == TypeOK /\ RegisteredFirst /\ Order
=============================================================================
