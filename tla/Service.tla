------------------------------ MODULE Service ------------------------------
(***************************************************************************)
(* The process, from main to its exit: the API keys, the engine, the       *)
(* listener, the requests it serves meanwhile, and the two ways it stops.  *)
(* Ctrl+C, or a handler for it that cannot be installed, begins a graceful *)
(* shutdown: axum accepts nothing more and waits for its HTTP connections, *)
(* `run' returns, and dropping the runtime drops the tasks that are left,  *)
(* which are the sessions of upgraded WebSockets, and waits for the        *)
(* blocking runs.  Any other signal just ends the process.                 *)
(*                                                                         *)
(* What a request does with the engine is the contract of transcribe_range *)
(* (SlotService); an upload makes one call per chunk, a stream any number. *)
(***************************************************************************)
EXTENDS Integers, Sequences, FiniteSets

CONSTANTS
  Clients,    \* each has one request at a time
  Kind,       \* what a client asks for: "upload", "stream" or "health"
  Presents,   \* the key in its Authorization header, None without a usable one
  Configs,    \* command lines: [list, flags, file, engine]
  Trim,       \* str::trim of each line of the key files
  Parallel,   \* --parallel
  MaxChunks,  \* bound on the chunks of an upload
  None        \* no --api-key-file, no key

ASSUME KindAssumption == Kind \in [Clients -> {"upload", "stream", "health"}]
ASSUME MaxChunksAssumption == MaxChunks \in Nat
ASSUME NoneAssumption == \A c \in Configs : None \notin c.flags

(* A key file that cannot be opened, and a line that is not UTF-8. *)
Missing == <<"missing">>
Garbled == "garbled"

VARIABLES
  cfg,     \* the command line
  phase,   \* where the process is
  code,    \* its ExitCode, once it has one
  keys,    \* AuthKeys
  conn,    \* where each client's request is
  todo,    \* chunks an upload has not transcribed yet
  caller, engine  \* the calls of transcribe_range

process == <<cfg, phase, code, keys>>
calls == <<caller, engine>>
vars == <<process, conn, todo, calls>>

Slots == INSTANCE SlotService WITH Calls <- Clients

Phases == {"start", "keyed", "built", "serving", "draining", "stopping", "exited", "killed"}
ConnStates == {"none", "request", "reading", "handling", "streaming", "answered", "denied", "gone", "cut"}

(* Connections that axum's graceful shutdown waits for; one that has been  *)
(* upgraded to a WebSocket is none of them.                                *)
Http == {"request", "reading", "handling"}
(* A handler has been reached, and still runs. *)
InHandler == {"reading", "handling", "streaming"}

TypeOK ==
  /\ cfg \in Configs
  /\ phase \in Phases
  /\ code \in {None, "success", "failure"}
  /\ conn \in [Clients -> ConnStates]
  /\ todo \in [Clients -> 0..MaxChunks]
  /\ caller \in [Clients -> {"absent", "waiting", "ok", "error", "busy", "left"}]
  /\ engine \in [Clients -> {"out", "in", "ok", "error", "stopped"}]
  /\ \A c \in Clients :
       /\ conn[c] \in {"reading", "handling"} => Kind[c] = "upload"
       /\ conn[c] = "streaming" => Kind[c] = "stream"

Init ==
  /\ cfg \in Configs
  /\ phase = "start"
  /\ code = None
  /\ keys = {}
  /\ conn = [c \in Clients |-> "none"]
  /\ todo = [c \in Clients |-> 0]
  /\ Slots!Init

----------------------------------------------------------------------------
(* The start: main and run.                                                *)

Exit(outcome) == phase' = "exited" /\ code' = outcome

(* --list-devices prints and exits, or fails (EngineLoad). *)
ListDevices ==
  /\ phase = "start" /\ cfg.list
  /\ \E outcome \in {"success", "failure"} : Exit(outcome)
  /\ UNCHANGED <<cfg, keys, conn, todo, calls>>

(* The lines of the key file, if there is one. *)
Lines(file) == IF file \in {None, Missing} THEN {} ELSE {file[i] : i \in DOMAIN file}

Readable(file) == file # Missing /\ Garbled \notin Lines(file)

(* all_api_keys: the flags as they are, the lines trimmed, no blank line. *)
AllApiKeys(c) == c.flags \cup ({Trim[line] : line \in Lines(c.file) \ {Garbled}} \ {""})

(* Mutant of ReadKeys: the keys that could be read will do. *)
ReadSomeKeys ==
  /\ phase = "start" /\ ~cfg.list
  /\ keys' = AllApiKeys(cfg)
  /\ phase' = "keyed"
  /\ UNCHANGED <<cfg, code, conn, todo, calls>>

ReadKeys ==
  /\ phase = "start" /\ ~cfg.list /\ Readable(cfg.file)
  /\ keys' = AllApiKeys(cfg)
  /\ phase' = "keyed"
  /\ UNCHANGED <<cfg, code, conn, todo, calls>>

KeysUnreadable ==
  /\ phase = "start" /\ ~cfg.list /\ ~Readable(cfg.file)
  /\ Exit("failure")
  /\ UNCHANGED <<cfg, keys, conn, todo, calls>>

(* build_engine: the fake one always, the other if it loads (EngineLoad). *)
BuildEngine ==
  /\ phase = "keyed" /\ cfg.engine \in {"fake", "transcribe"}
  /\ phase' = "built"
  /\ UNCHANGED <<cfg, code, keys, conn, todo, calls>>

EngineFails ==
  /\ phase = "keyed" /\ cfg.engine # "fake"
  /\ Exit("failure")
  /\ UNCHANGED <<cfg, keys, conn, todo, calls>>

Bind ==
  /\ phase = "built"
  /\ phase' = "serving"
  /\ UNCHANGED <<cfg, code, keys, conn, todo, calls>>

BindFails ==
  /\ phase = "built"
  /\ Exit("failure")
  /\ UNCHANGED <<cfg, keys, conn, todo, calls>>

----------------------------------------------------------------------------
(* The requests.                                                           *)

Running == phase \in {"serving", "draining", "stopping"}

Goto(c, state) == conn' = [conn EXCEPT ![c] = state]

(* A connection is accepted, with a request to come on it. *)
Connect(c) ==
  /\ phase = "serving"
  /\ conn[c] \notin Http \cup InHandler /\ caller[c] = "absent"
  /\ Goto(c, "request")
  /\ UNCHANGED <<process, todo, calls>>

(* build_router: the keys guard /v1 and nothing else. *)
Protected(c) == Kind[c] # "health"

(* require_api_key: no keys, no authentication. *)
Authorized(c) == keys = {} \/ (Presents[c] # None /\ Presents[c] \in keys)

(* The request reaches its handler; /health answers at once, a WebSocket   *)
(* is upgraded and its session becomes a task of its own.                  *)
Admit(c) ==
  /\ Running /\ conn[c] = "request"
  /\ Protected(c) => Authorized(c)
  /\ Goto(c, CASE Kind[c] = "upload" -> "reading" [] Kind[c] = "stream" -> "streaming" [] OTHER -> "answered")
  /\ UNCHANGED <<process, todo, calls>>

Deny(c) ==
  /\ Running /\ conn[c] = "request"
  /\ Protected(c) /\ ~Authorized(c)
  /\ Goto(c, "denied")
  /\ UNCHANGED <<process, todo, calls>>

(* The body has been read: an error answer, or so many chunks to do. *)
BodyRead(c) ==
  /\ Running /\ conn[c] = "reading"
  /\ \/ Goto(c, "answered") /\ UNCHANGED todo
     \/ Goto(c, "handling") /\ \E n \in 0..MaxChunks : todo' = [todo EXCEPT ![c] = n]
  /\ UNCHANGED <<process, calls>>

(* The next chunk of an upload, or one that a stream has received. *)
Ask(c) ==
  /\ Running
  /\ conn[c] = "streaming" \/ (conn[c] = "handling" /\ todo[c] > 0)
  /\ Slots!Ask(c)
  /\ UNCHANGED <<process, conn, todo>>

(* The call goes on, or ends. *)
Finish(c) == Running /\ UNCHANGED <<process, conn, todo>> /\ \E end \in {"ok", "error", "stopped"} : Slots!Finish(c, end)
Return(c) == Running /\ UNCHANGED <<process, conn, todo>> /\ Slots!Answer(c)
Queue(c) == Running /\ UNCHANGED <<process, conn, todo>> /\ (Slots!Enter(c) \/ Slots!TurnAway(c))

(* The caller has its answer: the next chunk, or the error ends it all. *)
Take(c) ==
  /\ Running
  /\ conn[c] \in {"handling", "streaming"} /\ caller[c] \in {"ok", "error", "busy"}
  /\ Slots!Forget(c)
  /\ IF caller[c] = "ok"
     THEN todo' = [todo EXCEPT ![c] = IF Kind[c] = "upload" THEN @ - 1 ELSE @] /\ UNCHANGED conn
     ELSE Goto(c, "answered") /\ todo' = [todo EXCEPT ![c] = 0]
  /\ UNCHANGED process

(* Every chunk is done; a stream stops between two chunks. *)
Respond(c) ==
  /\ Running /\ caller[c] = "absent"
  /\ conn[c] = "handling" /\ todo[c] = 0
  /\ Goto(c, "answered")
  /\ UNCHANGED <<process, todo, calls>>

StreamEnds(c) ==
  /\ Running /\ caller[c] = "absent" /\ conn[c] = "streaming"
  /\ Goto(c, "answered")
  /\ UNCHANGED <<process, todo, calls>>

(* Whatever drops a handler drops the call it waits for. *)
DropCall(c) == IF caller[c] = "waiting" THEN Slots!Leave(c) ELSE UNCHANGED calls

(* The client of an upload hangs up and hyper drops the handler; a stream  *)
(* notices between two chunks only (StreamEnds).                           *)
HangUp(c) ==
  /\ Running /\ conn[c] \in Http
  /\ Goto(c, "gone")
  /\ todo' = [todo EXCEPT ![c] = 0]
  /\ DropCall(c)
  /\ UNCHANGED process

(* The abandoned run is over. *)
Clear(c) ==
  /\ Running /\ conn[c] \notin InHandler
  /\ Slots!Forget(c)
  /\ UNCHANGED <<process, conn, todo>>

----------------------------------------------------------------------------
(* The stop.                                                               *)

(* shutdown_signal returns: Ctrl+C, or it cannot be listened for. *)
ShutdownSignal ==
  /\ phase = "serving"
  /\ phase' = "draining"
  /\ UNCHANGED <<cfg, code, keys, conn, todo, calls>>

(* hyper closes a connection on which no request has begun. *)
CloseIdle(c) ==
  /\ phase = "draining" /\ conn[c] = "request"
  /\ Goto(c, "none")
  /\ UNCHANGED <<process, todo, calls>>

(* Mutant of Drained: the listener is closed, and that is all. *)
DrainedAtOnce ==
  /\ phase = "draining"
  /\ phase' = "stopping"
  /\ UNCHANGED <<cfg, code, keys, conn, todo, calls>>

(* Mutant of Drained: the sessions of WebSockets are waited for as well. *)
DrainedOfStreams ==
  /\ phase = "draining"
  /\ \A c \in Clients : conn[c] \notin Http \cup {"streaming"}
  /\ phase' = "stopping"
  /\ UNCHANGED <<cfg, code, keys, conn, todo, calls>>

(* axum::serve returns, and with it run. *)
Drained ==
  /\ phase = "draining"
  /\ \A c \in Clients : conn[c] \notin Http
  /\ phase' = "stopping"
  /\ UNCHANGED <<cfg, code, keys, conn, todo, calls>>

(* The runtime drops a task that is still there; until it comes to it the  *)
(* task may go on.                                                         *)
DropTask(c) ==
  /\ phase = "stopping" /\ conn[c] \in InHandler
  /\ Goto(c, "cut")
  /\ todo' = [todo EXCEPT ![c] = 0]
  /\ DropCall(c)
  /\ UNCHANGED process

(* The blocking pool has been waited for: main returns. *)
ExitSuccess ==
  /\ phase = "stopping"
  /\ \A c \in Clients : conn[c] \notin InHandler /\ engine[c] # "in"
  /\ Exit("success")
  /\ UNCHANGED <<cfg, keys, conn, todo, calls>>

(* SIGTERM, SIGKILL, or Ctrl+C before it is listened for: no handler. *)
Kill ==
  /\ phase \notin {"exited", "killed"}
  /\ phase' = "killed"
  /\ UNCHANGED <<cfg, code, keys, conn, todo, calls>>

Start == ListDevices \/ ReadKeys \/ KeysUnreadable \/ BuildEngine \/ EngineFails \/ Bind \/ BindFails
Call(c) == Finish(c) \/ Return(c) \/ Queue(c) \/ Take(c) \/ Clear(c)
Serve(c) ==
  \/ Connect(c) \/ Admit(c) \/ Deny(c) \/ BodyRead(c) \/ Ask(c) \/ Call(c)
  \/ Respond(c) \/ StreamEnds(c) \/ HangUp(c)
Stop == ShutdownSignal \/ Drained \/ ExitSuccess \/ Kill \/ \E c \in Clients : CloseIdle(c) \/ DropTask(c)

Next == Start \/ Stop \/ \E c \in Clients : Serve(c)

Spec == Init /\ [][Next]_vars

(* The runtime polls every ready task and every run of the engine returns. *)
(* Of an HTTP client, whom axum's drain waits for without a timeout: the   *)
(* request head it has begun is completed (Admit, Deny), its body arrives  *)
(* or it leaves, and it reads the response.  Nothing is assumed of the     *)
(* clients of streams: they may send on for ever, or nothing at all.       *)
Fairness ==
  /\ WF_vars(Drained) /\ WF_vars(ExitSuccess)
  /\ \A c \in Clients :
       /\ WF_vars(Admit(c) \/ Deny(c) \/ CloseIdle(c)) /\ WF_vars(BodyRead(c) \/ HangUp(c))
       /\ WF_vars(conn[c] = "handling" /\ (Ask(c) \/ Respond(c)))
       /\ WF_vars(Finish(c)) /\ WF_vars(Return(c)) /\ WF_vars(Queue(c)) /\ WF_vars(Take(c))
       /\ WF_vars(DropTask(c))

FairSpec == Spec /\ Fairness

----------------------------------------------------------------------------
(* The operator's keys hold: a /v1 handler is reached, or has been, only   *)
(* with one of the keys of the flags and of the file, whole, if there are  *)
(* any; /health needs none; and a process that could not read its keys     *)
(* serves nobody (auth.rs, all_api_keys, run: "reading API keys").         *)
KeysEnforced == \A c \in Clients :
  /\ conn[c] \in InHandler =>
       /\ cfg.file # Missing /\ Garbled \notin Lines(cfg.file)
       /\ \/ cfg.flags = {} /\ \A line \in Lines(cfg.file) : Trim[line] = ""
          \/ Presents[c] \in cfg.flags
          \/ \E line \in Lines(cfg.file) : Presents[c] = Trim[line]
  /\ conn[c] = "denied" => Kind[c] # "health" /\ Presents[c] \notin cfg.flags

(* A shutdown the server listens for cuts no upload short, however many    *)
(* chunks it has left and wherever it waits: the tasks the runtime drops   *)
(* are sessions of streams (with_graceful_shutdown, "draining              *)
(* connections").                                                          *)
OnlyStreamsCut == \A c \in Clients : conn[c] = "cut" => Kind[c] = "stream"

(* A shutdown comes to an end, whatever the streams that are open do, if   *)
(* the HTTP clients do their part (Fairness).                              *)
ShutdownEnds == phase = "draining" ~> phase \in {"exited", "killed"}

----------------------------------------------------------------------------
(* The inductive invariant: the keys are the configured ones from then on, *)
(* and nothing that axum waits for is left once it has returned.           *)
KeysRead == phase \notin {"start", "exited", "killed"} => Readable(cfg.file) /\ keys = AllApiKeys(cfg)

Guarded == \A c \in Clients :
  /\ conn[c] \in InHandler => Readable(cfg.file) /\ keys = AllApiKeys(cfg) /\ Authorized(c)
  /\ conn[c] = "denied" => keys = AllApiKeys(cfg) /\ Protected(c) /\ ~Authorized(c)

(* A call belongs to a handler with a chunk to do, or is being cleared. *)
CallsInv == \A c \in Clients :
  /\ conn[c] \in {"request", "reading"} => caller[c] = "absent"
  /\ conn[c] = "handling" /\ caller[c] # "absent" => todo[c] > 0

DrainedInv == phase = "stopping" => \A c \in Clients : conn[c] \notin Http

SInv == TypeOK /\ KeysRead /\ Guarded /\ CallsInv /\ DrainedInv /\ OnlyStreamsCut
=============================================================================
