----------------------------- MODULE RunOptions -----------------------------
(***************************************************************************)
(* What one run of the engine is asked for, on its way from the request:   *)
(* a switch is read like its flag, falls back on the server's default, and *)
(* reaches the library only for a model that has it.                       *)
(*                                                                         *)
(* A model is as in ModelCatalogue, and has switches: those of pnc and itn *)
(* that the library says it can switch at run time.                        *)
(***************************************************************************)
EXTENDS ModelCatalogue

CONSTANTS DefaultPnc, DefaultItn  \* --pnc and --itn: "on", "off" or None

ASSUME DefaultsAssumption ==
  {DefaultPnc, DefaultItn} \subseteq {"on", "off", None} /\ None \notin {"on", "off", "bad", "default"}

(* toggle: the words of a switch, in capitals or not, spaced or not. *)
Toggle(text) ==
  CASE text.name \in {"on", "true", "1", "yes"} -> "on"
    [] text.name \in {"off", "false", "0", "no"} -> "off"
    [] OTHER -> "bad"

(* A field that was not sent is no switch, and no error. *)
ToggleField(field) == IF field = None THEN None ELSE Toggle(field)

(* Mutant of Otherwise: the server's default comes first. *)
ServerFirst(asked, default) == IF default # None THEN default ELSE asked

(* Option::or, "request wins over the server-wide default". *)
Otherwise(asked, default) == IF asked # None THEN asked ELSE default

(* resolve_pnc and resolve_itn. *)
Switch(requested, supported) == IF requested # None /\ supported THEN requested ELSE "default"

(* RunOptions as the engine fills them in for the model of the run; a      *)
(* target never goes with a transcription.                                 *)
LibraryOptions(options, model) ==
  [task |-> options.task, language |-> options.language,
   target |-> IF options.task = "translate" THEN options.target ELSE None,
   pnc |-> Switch(options.pnc, "pnc" \in model.switches),
   itn |-> Switch(options.itn, "itn" \in model.switches)]
=============================================================================
