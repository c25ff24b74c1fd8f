--------------------------- MODULE ServiceProofs ---------------------------
(***************************************************************************)
(* The keys hold and a shutdown cuts no upload, for any clients, command   *)
(* lines and number of chunks: SInv is inductive.                          *)
(***************************************************************************)
EXTENDS Service, TLAPS

(* The start and the stop touch no request, but for the task they drop. *)
LEMMA StartKeeps == SInv /\ Start => SInv'
  <1> SUFFICES ASSUME SInv, Start PROVE SInv' OBVIOUS
  <1> USE DEF SInv, TypeOK, KeysRead, Guarded, CallsInv, DrainedInv, OnlyStreamsCut, calls, Phases, InHandler, Http
  <1>1. CASE ListDevices BY <1>1 DEF ListDevices, Exit, Authorized
  <1>2. CASE ReadKeys BY <1>2 DEF ReadKeys, Authorized
  <1>3. CASE KeysUnreadable BY <1>3 DEF KeysUnreadable, Exit, Authorized
  <1>4. CASE BuildEngine BY <1>4 DEF BuildEngine, Authorized
  <1>5. CASE EngineFails BY <1>5 DEF EngineFails, Exit, Authorized
  <1>6. CASE Bind BY <1>6 DEF Bind, Authorized
  <1>7. CASE BindFails BY <1>7 DEF BindFails, Exit, Authorized
  <1> QED BY <1>1, <1>2, <1>3, <1>4, <1>5, <1>6, <1>7 DEF Start

(* A shutdown leaves alone the requests that axum waits for, so that the   *)
(* only tasks the runtime can drop are the sessions of streams.            *)
LEMMA StopKeeps == SInv /\ Stop => SInv'
  <1> SUFFICES ASSUME SInv, Stop PROVE SInv' OBVIOUS
  <1> USE DEF SInv, TypeOK, KeysRead, Guarded, CallsInv, DrainedInv, OnlyStreamsCut, calls, process, Phases, InHandler, Http
  <1>1. CASE ShutdownSignal BY <1>1 DEF ShutdownSignal, Authorized
  <1>2. CASE Drained BY <1>2 DEF Drained, Authorized
  <1>3. CASE ExitSuccess BY <1>3 DEF ExitSuccess, Exit, Authorized
  <1>4. CASE Kill BY <1>4 DEF Kill, Authorized
  <1>5. ASSUME NEW c \in Clients, CloseIdle(c) PROVE SInv'
    BY <1>5 DEF CloseIdle, Goto, Authorized, ConnStates
  <1>6. ASSUME NEW c \in Clients, DropTask(c) PROVE SInv'
    BY <1>6, MaxChunksAssumption DEF DropTask, Goto, DropCall, Slots!Leave, Authorized, ConnStates
  <1> QED BY <1>1, <1>2, <1>3, <1>4, <1>5, <1>6 DEF Stop

(* A call begins and goes on under a handler, which stays where it is. *)
LEMMA CallKeeps ==
  ASSUME NEW c \in Clients, SInv, Ask(c) \/ Call(c)
  PROVE SInv'
  <1> USE DEF SInv, TypeOK, KeysRead, Guarded, CallsInv, DrainedInv, OnlyStreamsCut, process, Phases, InHandler, Http, Authorized
  <1>1. CASE Ask(c) BY <1>1 DEF Ask, Slots!Ask
  <1>2. CASE Finish(c) BY <1>2 DEF Finish, Slots!Finish
  <1>3. CASE Return(c) BY <1>3 DEF Return, Slots!Answer
  <1>4. CASE Queue(c) BY <1>4 DEF Queue, Slots!Enter, Slots!TurnAway
  <1>5. CASE Take(c) BY <1>5, MaxChunksAssumption DEF Take, Goto, Slots!Forget, ConnStates
  <1>6. CASE Clear(c) BY <1>6 DEF Clear, Slots!Forget
  <1> QED BY <1>1, <1>2, <1>3, <1>4, <1>5, <1>6 DEF Call

(* The keys are looked at on the way to a handler, and nowhere else. *)
LEMMA RequestKeeps ==
  ASSUME NEW c \in Clients, SInv,
         Connect(c) \/ Admit(c) \/ Deny(c) \/ BodyRead(c) \/ Respond(c) \/ StreamEnds(c) \/ HangUp(c)
  PROVE SInv'
  <1> USE DEF SInv, TypeOK, KeysRead, Guarded, CallsInv, DrainedInv, OnlyStreamsCut, process, calls, Phases, InHandler,
              Http, Authorized, Goto, ConnStates
  <1>1. CASE Connect(c) BY <1>1 DEF Connect
  <1>2. CASE Admit(c) BY <1>2, KindAssumption DEF Admit, Running, Protected
  <1>3. CASE Deny(c) BY <1>3 DEF Deny, Running
  <1>4. CASE BodyRead(c) BY <1>4 DEF BodyRead, Running
  <1>5. CASE Respond(c) BY <1>5 DEF Respond
  <1>6. CASE StreamEnds(c) BY <1>6 DEF StreamEnds
  <1>7. CASE HangUp(c) BY <1>7, MaxChunksAssumption DEF HangUp, DropCall, Slots!Leave
  <1> QED BY <1>1, <1>2, <1>3, <1>4, <1>5, <1>6, <1>7

(* The inductive invariant of the process. *)
THEOREM ServiceInvariance == Spec => []SInv
  <1>1. Init => SInv
    BY MaxChunksAssumption DEF Init, SInv, TypeOK, KeysRead, Guarded, CallsInv, DrainedInv, OnlyStreamsCut, Slots!Init,
      Phases, ConnStates, InHandler, Http
  <1>2. SInv /\ [Next]_vars => SInv'
    <2> SUFFICES ASSUME SInv, [Next]_vars PROVE SInv' OBVIOUS
    <2>1. CASE Start BY <2>1, StartKeeps
    <2>2. CASE Stop BY <2>2, StopKeeps
    <2>3. ASSUME NEW c \in Clients, Serve(c) PROVE SInv'
      BY <2>3, CallKeeps, RequestKeeps DEF Serve
    <2>4. CASE UNCHANGED vars
      BY <2>4 DEF vars, process, calls, SInv, TypeOK, KeysRead, Guarded, CallsInv, DrainedInv, OnlyStreamsCut, Authorized
    <2> QED BY <2>1, <2>2, <2>3, <2>4 DEF Next
  <1> QED BY <1>1, <1>2, PTL DEF Spec

(* A /v1 handler is reached only with a configured key, if there are any,  *)
(* and by a process that has read its whole key file.                      *)
THEOREM KeysAlwaysEnforced == Spec => []KeysEnforced
  <1>1. SInv => KeysEnforced
    <2> SUFFICES ASSUME SInv, NEW c \in Clients
        PROVE /\ conn[c] \in InHandler =>
                   /\ cfg.file # Missing /\ Garbled \notin Lines(cfg.file)
                   /\ \/ cfg.flags = {} /\ \A line \in Lines(cfg.file) : Trim[line] = ""
                      \/ Presents[c] \in cfg.flags
                      \/ \E line \in Lines(cfg.file) : Presents[c] = Trim[line]
              /\ conn[c] = "denied" => Kind[c] # "health" /\ Presents[c] \notin cfg.flags
      BY DEF KeysEnforced
    <2>1. ASSUME conn[c] \in InHandler
          PROVE /\ cfg.file # Missing /\ Garbled \notin Lines(cfg.file)
                /\ \/ cfg.flags = {} /\ \A line \in Lines(cfg.file) : Trim[line] = ""
                   \/ Presents[c] \in cfg.flags
                   \/ \E line \in Lines(cfg.file) : Presents[c] = Trim[line]
      BY <2>1 DEF SInv, Guarded, Authorized, AllApiKeys, Readable
    <2>2. ASSUME conn[c] = "denied" PROVE Kind[c] # "health" /\ Presents[c] \notin cfg.flags
      BY <2>2, NoneAssumption DEF SInv, TypeOK, Guarded, Authorized, Protected, AllApiKeys
    <2> QED BY <2>1, <2>2
  <1> QED BY <1>1, ServiceInvariance, PTL

(* Whatever a graceful shutdown cuts short is a stream. *)
THEOREM UploadsDrained == Spec => []OnlyStreamsCut
  BY ServiceInvariance, PTL DEF SInv
=============================================================================
