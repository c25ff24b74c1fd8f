---------------------------- MODULE MCEngineLoad ----------------------------
EXTENDS EngineListing, TLC

Arg(alias, path) == [alias |-> alias, path |-> path]
Ask(what, args, no_gpu, device) ==
  [what |-> what, args |-> args, no_gpu |-> no_gpu, device |-> device]
(* Two files of one name: with aliases, and without. *)
Named == <<Arg("fast", "a/model"), Arg("big", "b/model")>>
Bare == <<Arg(None, "a/model"), Arg(None, "b/model")>>

SomeRequests ==
  {Ask("list", <<>>, FALSE, None), Ask("load", <<>>, FALSE, None),
   Ask("load", Bare, FALSE, None)} \cup
  {Ask("load", Named, no_gpu, device) : no_gpu \in BOOLEAN, device \in {None, 0, 1, 2}}

Dev(index, type) == [index |-> index, type |-> type]

(* None; a slot that could not be queried; a device without an index. *)
SomeRegistries == {
  <<>>,
  <<Dev(0, "cpu"), Dev(1, "gpu"), Dev(2, "accel")>>,
  <<Dev(1, "gpu"), Dev(2, "cpu")>>,
  <<Dev(None, "gpu"), Dev(0, "cpu")>> }

Stems == [path \in {"a/model", "b/model"} |-> "model"]
en == [name |-> "en", upper |-> FALSE, spaced |-> FALSE]

(* Of the two only the second translates, and only it has a limit. *)
Caps == [path \in DOMAIN Stems |->
  [arch |-> "whisper", translates |-> path = "b/model",
   targets |-> IF path = "b/model" THEN <<en>> ELSE <<>>, limit |-> IF path = "b/model" THEN 4 ELSE -1]]
=============================================================================
