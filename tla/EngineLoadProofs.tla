-------------------------- MODULE EngineLoadProofs --------------------------
(* The registration comes first, the device is the one asked for, an       *)
(* engine that is ready is whole, and what the listing says of its models  *)
(* holds: for any number of threads and models.                            *)
EXTENDS EngineListing, SequenceTheorems, TLAPS

LEMMA InitLInv == Init => LInv
  BY NoneAssumption DEF Init, LInv, TypeOK, RegisteredFirst, Order, Past, Points

(* An operator the other threads' actions leave alone. *)
LEMMA Untouched ==
  ASSUME NEW k \in Loaders, want' = want, options'[k] = options[k], NEW i
  PROVE  Loaded(k, i)' = Loaded(k, i)
  BY DEF Loaded, Specs, ModelSpecs, ModelInfo

(* Who may use the backends, after any step. *)
LEMMA RegisteredStep == LInv /\ [Next]_vars => RegisteredFirst'
  <1> SUFFICES ASSUME LInv, [Next]_vars PROVE RegisteredFirst'
    OBVIOUS
  <1> USE DEF LInv, TypeOK, RegisteredFirst, Past, Points, Begun, Goto
  <1>1. CASE UNCHANGED vars
    BY <1>1 DEF vars
  <1>2. ASSUME NEW l \in Loaders, Step(l) PROVE RegisteredFirst'
    <2>1. CASE NoModels(l)
      BY <2>1 DEF NoModels
    <2>2. CASE Register(l)
      BY <2>2 DEF Register
    <2>3. CASE RegisterFails(l)
      BY <2>3 DEF RegisterFails
    <2>4. CASE RegisterSucceeds(l)
      BY <2>4 DEF RegisterSucceeds
    <2>5. CASE JoinRegistration(l)
      BY <2>5 DEF JoinRegistration
    <2>6. CASE List(l)
      BY <2>6 DEF List
    <2>7. CASE Resolve(l)
      BY <2>7 DEF Resolve
    <2>8. CASE RefuseDevice(l)
      BY <2>8 DEF RefuseDevice
    <2>9. CASE LoadModel(l)
      BY <2>9 DEF LoadModel
    <2>10. CASE ModelFails(l)
      BY <2>10 DEF ModelFails
    <2>11. CASE Ready(l)
      BY <2>11 DEF Ready
    <2> QED BY <1>2, <2>1, <2>2, <2>3, <2>4, <2>5, <2>6, <2>7, <2>8, <2>9, <2>10, <2>11 DEF Step
  <1> QED BY <1>1, <1>2 DEF Next

(* An operator over the registry is what it was while the registry is. *)
LEMMA SameDevice ==
  ASSUME registry' = registry, want' = want, NEW k \in Loaders
  PROVE  /\ DeviceRefused(want[k])' <=> DeviceRefused(want[k])
         /\ Options(want[k])' = Options(want[k])
  BY DEF DeviceRefused, Options, Device, Chosen, Matching, Usable

LEMMA LoadedFields ==
  ASSUME NEW k \in Loaders, NEW i
  PROVE  /\ Loaded(k, i).path = Specs(k)[i].path
         /\ Loaded(k, i).options = options[k]
         /\ Loaded(k, i).info.id = Specs(k)[i].alias
  BY DEF Loaded, ModelInfo

LEMMA DevicesTyped ==
  ASSUME LInv
  PROVE  registry \in Seq([index : Nat \cup {None}, type : STRING]) /\ \A i \in DOMAIN registry : registry[i] # None
  <1>1. <<>> \in Seq([index : Nat \cup {None}, type : STRING])
    OBVIOUS
  <1>2. registry \in Seq([index : Nat \cup {None}, type : STRING])
    <2>1. registry \in Registries \cup {<<>>}
      BY DEF LInv, TypeOK
    <2> QED BY <1>1, <2>1, RegistriesAssumption
  <1>3. \A i \in DOMAIN registry : registry[i] \in [index : Nat \cup {None}, type : STRING]
    <2> DEFINE S == [index : Nat \cup {None}, type : STRING]
    <2>1. registry \in Seq(S)
      BY <1>2
    <2> HIDE DEF S
    <2>2. \A i \in DOMAIN registry : registry[i] \in S
      BY <2>1
    <2> QED BY <2>2 DEF S
  <1>4. None \notin [index : Nat \cup {None}, type : STRING]
    BY NoneAssumption
  <1> QED BY <1>2, <1>3, <1>4

(* Two steps that change what is loaded.  A registration changes the       *)
(* registry, but nobody has resolved a device by then.                     *)
LEMMA LoadStep ==
  ASSUME LInv, NEW l \in Loaders, LoadModel(l)
  PROVE  Order'
  <1> DEFINE n == Len(models[l]) + 1
  <1>1. models[l] \in Seq({Loaded(l, i) : i \in DOMAIN want[l].args}) /\ pc[l] = "loading" /\ pc' = pc
        /\ want' = want /\ options' = options /\ registry' = registry /\ Len(models[l]) < Len(want[l].args)
    BY DEF LInv, TypeOK, LoadModel
  <1>2. models[l]' = Append(models[l], Loaded(l, n)) /\ \A k \in Loaders : k # l => models'[k] = models[k]
    BY DEF LInv, TypeOK, LoadModel
  <1>3. want[l].args \in Seq([alias : STRING \cup {None}, path : DOMAIN FileStem])
    BY RequestsAssumption DEF LInv, TypeOK
  <1>4. n \in DOMAIN want[l].args
    BY <1>1, <1>3
  <1>5. /\ Len(models'[l]) = n /\ n <= Len(want[l].args)
        /\ \A i \in DOMAIN models'[l] : models'[l][i] = IF i = n THEN Loaded(l, n) ELSE models[l][i]
        /\ \A i \in DOMAIN models'[l] : i # n => i \in DOMAIN models[l]
    <2> DEFINE S == {Loaded(l, i) : i \in DOMAIN want[l].args}
    <2>1. Loaded(l, n) \in S /\ models[l] \in Seq(S)
      BY <1>1, <1>4
    <2>2. Len(want[l].args) \in Nat /\ Len(models[l]) \in Nat
      BY <1>3, <2>1
    <2> HIDE DEF S
    <2>3. /\ Append(models[l], Loaded(l, n)) \in Seq(S)
          /\ Len(Append(models[l], Loaded(l, n))) = Len(models[l]) + 1
          /\ \A i \in 1..Len(models[l]) : Append(models[l], Loaded(l, n))[i] = models[l][i]
          /\ Append(models[l], Loaded(l, n))[Len(models[l]) + 1] = Loaded(l, n)
      BY <2>1, AppendProperties
    <2> QED BY <1>1, <1>2, <2>1, <2>2, <2>3
  <1>6. \A k \in Loaders : \A i \in DOMAIN models'[k] : models'[k][i] = Loaded(k, i)
    BY <1>2, <1>5, SMTT(30) DEF LInv, Order
  <1>7. \A k \in Loaders : \A i : Loaded(k, i)' = Loaded(k, i)
    BY <1>1, Untouched
  <1>8. \A k \in Loaders : (DeviceRefused(want[k])' <=> DeviceRefused(want[k])) /\ Options(want[k])' = Options(want[k])
    BY <1>1, SameDevice
  <1>9. \A k \in Loaders : \A i \in DOMAIN models'[k] : models'[k][i] = Loaded(k, i)'
    BY <1>6, <1>7
  <1> QED BY <1>1, <1>2, <1>5, <1>8, <1>9 DEF LInv, Order

LEMMA OrderStep == LInv /\ [Next]_vars => Order'
  <1> SUFFICES ASSUME LInv, [Next]_vars PROVE Order'
    OBVIOUS
  <1>1. ASSUME NEW l \in Loaders, NEW p \in Points, pc' = [pc EXCEPT ![l] = p],
               UNCHANGED <<want, registry, options, models>>,
               p \notin {"begin", "failed"} /\ want[l].what = "load" => want[l].args # <<>>,
               \/ pc[l] \notin {"loading", "ready"} /\ p \notin {"loading", "ready"}
               \/ pc[l] = "loading" /\ p = "ready" /\ Len(models[l]) = Len(want[l].args)
        PROVE  Order'
    <2>1. \A k \in Loaders : /\ DeviceRefused(want[k])' <=> DeviceRefused(want[k])
                             /\ Options(want[k])' = Options(want[k])
      BY <1>1, SameDevice
    <2>2. \A k \in Loaders : \A i : Loaded(k, i)' = Loaded(k, i)
      BY <1>1, Untouched
    <2> QED BY <1>1, <2>1, <2>2 DEF LInv, TypeOK, Order
  <1>2. CASE UNCHANGED vars
    <2>1. \A k \in Loaders : /\ DeviceRefused(want[k])' <=> DeviceRefused(want[k])
                             /\ Options(want[k])' = Options(want[k])
      BY <1>2, SameDevice DEF vars
    <2>2. \A k \in Loaders : \A i : Loaded(k, i)' = Loaded(k, i)
      BY <1>2, Untouched DEF vars
    <2> QED BY <1>2, <2>1, <2>2 DEF LInv, Order, vars
  <1>3. ASSUME NEW l \in Loaders, Step(l) PROVE Order'
    <2>1. CASE NoModels(l) \/ Register(l) \/ RegisterFails(l) \/ JoinRegistration(l) \/ List(l) \/ RefuseDevice(l) \/ Ready(l)
      BY <1>1, <2>1 DEF NoModels, Register, RegisterFails, JoinRegistration, List, RefuseDevice, Ready, Begun, Goto, Points, LInv, Order
    <2>2. CASE RegisterSucceeds(l)
      <3>1. \A k \in Loaders : pc[k] \notin {"loading", "ready"} /\ pc'[k] \notin {"loading", "ready"}
        BY <2>2 DEF LInv, TypeOK, RegisteredFirst, Past, RegisterSucceeds, Goto
      <3>2. \A k \in Loaders : models'[k] = <<>> /\ (pc'[k] \notin {"begin", "failed"} /\ want[k].what = "load" => want[k].args # <<>>)
        BY <2>2, <3>1 DEF LInv, TypeOK, Order, RegisterSucceeds, Goto
      <3>3. \A k \in Loaders : 0 <= Len(want[k].args)
        BY RequestsAssumption DEF LInv, TypeOK
      <3> QED BY <2>2, <3>1, <3>2, <3>3 DEF Order, RegisterSucceeds
    <2>3. CASE Resolve(l)
      <3>1. \A k \in Loaders : /\ DeviceRefused(want[k])' <=> DeviceRefused(want[k])
                               /\ Options(want[k])' = Options(want[k])
        BY <2>3, SameDevice DEF Resolve
      <3>2. models' = models /\ want' = want /\ models[l] = <<>> /\ \A k \in Loaders : k # l => options'[k] = options[k]
        BY <2>3 DEF LInv, TypeOK, Order, Resolve
      <3>3. \A k \in Loaders : \A i \in DOMAIN models[k] : models[k][i] = Loaded(k, i)'
        BY <3>2, Untouched DEF LInv, Order
      <3>4. want[l].args # <<>> /\ pc' = [pc EXCEPT ![l] = "loading"] /\ options'[l] = Options(want[l])
        BY <2>3, RequestsAssumption DEF LInv, TypeOK, Order, Resolve, Goto
      <3> QED BY <2>3, <3>1, <3>2, <3>3, <3>4 DEF LInv, TypeOK, Order, Resolve
    <2>4. CASE LoadModel(l)
      BY <2>4, LoadStep
    <2>5. CASE ModelFails(l)
      <3>1. \A k \in Loaders : /\ DeviceRefused(want[k])' <=> DeviceRefused(want[k])
                               /\ Options(want[k])' = Options(want[k])
        BY <2>5, SameDevice DEF ModelFails
      <3>2. \A k \in Loaders : \A i : Loaded(k, i)' = Loaded(k, i)
        BY <2>5, Untouched DEF ModelFails
      <3>3. \A k \in Loaders : models'[k] = IF k = l THEN <<>> ELSE models[k]
        BY <2>5 DEF LInv, TypeOK, ModelFails
      <3>4. 0 <= Len(want[l].args)
        BY RequestsAssumption DEF LInv, TypeOK
      <3> QED BY <2>5, <3>1, <3>2, <3>3, <3>4 DEF LInv, TypeOK, Order, ModelFails, Goto
    <2> QED BY <1>3, <2>1, <2>2, <2>3, <2>4, <2>5 DEF Step
  <1> QED BY <1>2, <1>3 DEF Next

LEMMA TypeStep == LInv /\ [Next]_vars => TypeOK'
  <1> SUFFICES ASSUME LInv, [Next]_vars PROVE TypeOK'
    OBVIOUS
  <1>1. CASE UNCHANGED vars
    <2>1. \A k \in Loaders : \A i : Loaded(k, i)' = Loaded(k, i)
      BY <1>1, Untouched DEF vars
    <2> QED BY <1>1, <2>1 DEF LInv, TypeOK, vars
  <1>2. ASSUME NEW l \in Loaders, Step(l) PROVE TypeOK'
    <2> DEFINE Rows(k) == {Loaded(k, i) : i \in DOMAIN want[k].args}
    <2>1. /\ want' = want
          /\ pc' \in [Loaders -> Points]
          /\ backends' \in {"unset", "registering", "ok", "failed"}
          /\ registry' \in Registries \cup {<<>>}
      BY <1>2 DEF LInv, TypeOK, Points, Step, Goto, NoModels, Register, RegisterFails, RegisterSucceeds,
                  JoinRegistration, List, Resolve, RefuseDevice, LoadModel, ModelFails, Ready
    <2>2. options' \in [Loaders -> [backend : {"auto", "cpu"}, device : Devices \cup {None}] \cup {None}]
      <3>1. CASE Resolve(l)
        <4>1. Options(want[l]) \in [backend : {"auto", "cpu"}, device : Devices \cup {None}]
          <5>1. \A i \in DOMAIN registry : registry[i] \in Devices
            BY DEF LInv, TypeOK, Devices
          <5>2. ASSUME NEW i \in DOMAIN registry, Chosen(want[l].device, i)
                PROVE  Device(want[l]) \in Devices
            BY <5>1, <5>2 DEF Device
          <5>3. Device(want[l]) \in Devices \cup {None}
            BY <5>2 DEF Device
          <5> QED BY <5>3 DEF Options
        <4> QED BY <3>1, <4>1 DEF LInv, TypeOK, Resolve
      <3>2. CASE ~Resolve(l)
        BY <1>2, <3>2 DEF LInv, TypeOK, Step, NoModels, Register, RegisterFails, RegisterSucceeds,
                  JoinRegistration, List, RefuseDevice, LoadModel, ModelFails, Ready
      <3> QED BY <3>1, <3>2
    <2>3. CASE Resolve(l)
      <3>1. models' = models /\ \A k \in Loaders : k # l => options'[k] = options[k]
        BY <2>3 DEF LInv, TypeOK, Resolve
      <3>2. models[l] = <<>>
        BY <2>3 DEF LInv, Order, Resolve
      <3>3. \A k \in Loaders : k # l => \A i : Loaded(k, i)' = Loaded(k, i)
        BY <2>1, <3>1, Untouched
      <3>4. \A k \in Loaders : models'[k] \in Seq({Loaded(k, i)' : i \in DOMAIN want[k].args})
        <4> SUFFICES ASSUME NEW k \in Loaders
                     PROVE  models'[k] \in Seq({Loaded(k, i)' : i \in DOMAIN want[k].args})
          OBVIOUS
        <4>1. CASE k = l
          <5> DEFINE S == {Loaded(k, i)' : i \in DOMAIN want[k].args}
          <5>1. <<>> \in Seq(S)
            OBVIOUS
          <5> HIDE DEF S
          <5>2. models'[k] \in Seq(S)
            BY <3>1, <3>2, <4>1, <5>1
          <5> QED BY <5>2 DEF S
        <4>2. CASE k # l
          <5>1. {Loaded(k, i)' : i \in DOMAIN want[k].args} = Rows(k)
            BY <3>3, <4>2
          <5>2. models[k] \in Seq(Rows(k))
            BY DEF LInv, TypeOK
          <5> QED BY <3>1, <5>1, <5>2
        <4> QED BY <4>1, <4>2
      <3>5. models' = [k \in Loaders |-> models'[k]]
        BY <3>1 DEF LInv, TypeOK
      <3>6. \A k \in Loaders : (models[k] \in Seq({Loaded(k, i) : i \in DOMAIN want[k].args}))'
        BY <2>1, <3>4
      <3> QED BY <2>1, <2>2, <3>5, <3>6 DEF LInv, TypeOK
    <2>4. CASE ~Resolve(l)
      <3>1. \A k \in Loaders : \A i : Loaded(k, i)' = Loaded(k, i)
        <4>1. options' = options
          BY <1>2, <2>4 DEF Step, NoModels, Register, RegisterFails, RegisterSucceeds,
                  JoinRegistration, List, RefuseDevice, LoadModel, ModelFails, Ready
        <4> QED BY <2>1, <4>1, Untouched
      <3>2. models' = [k \in Loaders |-> models'[k]] /\ \A k \in Loaders : models'[k] \in Seq(Rows(k))
        <4>1. CASE LoadModel(l)
          <5>1. Len(models[l]) + 1 \in DOMAIN want[l].args
            <6>1. want[l].args \in Seq([alias : STRING \cup {None}, path : DOMAIN FileStem]) /\ models[l] \in Seq(Rows(l))
              BY RequestsAssumption DEF LInv, TypeOK
            <6> QED BY <4>1, <6>1 DEF LoadModel
          <5>2. Append(models[l], Loaded(l, Len(models[l]) + 1)) \in Seq(Rows(l))
            BY <5>1, AppendProperties DEF LInv, TypeOK
          <5> QED BY <4>1, <5>2 DEF LInv, TypeOK, LoadModel
        <4>2. CASE ModelFails(l)
          <5>1. <<>> \in Seq(Rows(l))
            OBVIOUS
          <5> HIDE DEF Rows
          <5>2. \A k \in Loaders : models[k] \in Seq(Rows(k))
            BY DEF LInv, TypeOK, Rows
          <5>3. models = [k \in Loaders |-> models[k]] /\ models' = [models EXCEPT ![l] = <<>>]
            BY <4>2 DEF LInv, TypeOK, ModelFails
          <5> QED BY <5>1, <5>2, <5>3
        <4>3. CASE models' = models
          BY <4>3 DEF LInv, TypeOK
        <4> QED BY <1>2, <4>1, <4>2, <4>3 DEF Step, NoModels, Register, RegisterFails, RegisterSucceeds,
                  JoinRegistration, List, Resolve, RefuseDevice, Ready
      <3>3. \A k \in Loaders : models'[k] \in Seq({Loaded(k, i)' : i \in DOMAIN want[k].args})
        <4>1. \A k \in Loaders : {Loaded(k, i)' : i \in DOMAIN want[k].args} = Rows(k)
          BY <3>1
        <4> HIDE DEF Rows
        <4> QED BY <3>2, <4>1
      <3>4. \A k \in Loaders : (models[k] \in Seq({Loaded(k, i) : i \in DOMAIN want[k].args}))'
        BY <2>1, <3>3
      <3>5. (want \in [Loaders -> Requests])'
        BY <2>1 DEF LInv, TypeOK
      <3>6. models' = [k \in Loaders |-> models'[k]]
        BY <3>2
      <3> QED BY ONLY <2>1, <2>2, <3>4, <3>5, <3>6 DEF TypeOK
    <2> QED BY <2>3, <2>4
  <1> QED BY <1>1, <1>2 DEF Next

(* The inductive invariant, for any number of threads, models, devices and *)
(* whatever the library registers.                                         *)
THEOREM LoadInvariance == Spec => []LInv
  <1>1. Init => LInv
    BY InitLInv
  <1>2. LInv /\ [Next]_vars => LInv'
    BY RegisteredStep, OrderStep, TypeStep DEF LInv
  <1> QED BY <1>1, <1>2, PTL DEF Spec

(* The registration's outcome reaches every thread that raced for it.      *)
THEOREM RegistrationFirst == Spec => []RegisteredFirst
  <1>1. LInv => RegisteredFirst
    BY DEF LInv
  <1> QED BY <1>1, LoadInvariance, PTL

(* --device is honored or refused, never replaced, whatever the registry   *)
(* skips, and --no-gpu stays on the CPU.                                   *)
THEOREM DeviceExact == Spec => []ExactDevice
  <1>1. LInv => ExactDevice
    <2> SUFFICES ASSUME LInv, NEW l \in Loaders, NEW i \in DOMAIN models[l]
                 PROVE  LET used == models[l][i].options
                            request == want[l]
                        IN  /\ used.device = None <=> request.device = None
                            /\ used.device # None => used.device.index = request.device /\ used.device.type # "accel"
                            /\ request.no_gpu => used.backend = "cpu" /\ (used.device # None => used.device.type = "cpu")
      BY DEF ExactDevice
    <2>1. pc[l] \in {"loading", "ready"}
      BY DEF LInv, Order
    <2>2. models[l][i].options = Options(want[l]) /\ ~DeviceRefused(want[l])
      BY <2>1, LoadedFields DEF LInv, Order
    <2>3. CASE want[l].device = None
      BY <2>2, <2>3 DEF Options, Device, Chosen, Matching
    <2>4. CASE want[l].device # None
      <3>1. PICK j \in DOMAIN registry : Chosen(want[l].device, j) /\ Usable(want[l], registry[j])
        BY <2>2, <2>4 DEF DeviceRefused
      <3>2. registry \in Seq([index : Nat \cup {None}, type : STRING])
        BY DevicesTyped
      <3>3. \A k \in DOMAIN registry : Chosen(want[l].device, k) => k = j
        BY <3>1, <3>2 DEF Chosen, Matching
      <3>4. Device(want[l]) = registry[j]
        BY <3>1, <3>3 DEF Device
      <3>5. registry[j].index = want[l].device
        BY <3>1 DEF Chosen, Matching
      <3>6. registry[j] # None
        BY DevicesTyped
      <3> QED BY <2>2, <2>4, <3>1, <3>4, <3>5, <3>6 DEF Options, Usable
    <2> QED BY <2>3, <2>4
  <1> QED BY <1>1, LoadInvariance, PTL

(* An engine that is ready has every configured model, in order; any other *)
(* has none.                                                               *)
THEOREM EngineWhole == Spec => []ReadyIsWhole
  <1>1. LInv => ReadyIsWhole
    <2> SUFFICES ASSUME LInv, NEW l \in Loaders, pc[l] = "ready"
                 PROVE  /\ Len(models[l]) = Len(want[l].args) /\ models[l] # <<>>
                        /\ \A i \in DOMAIN models[l] :
                             models[l][i].path = Specs(l)[i].path /\ models[l][i].info.id = Specs(l)[i].alias
      BY DEF ReadyIsWhole, LInv, Order
    <2>1. want[l].args \in Seq([alias : STRING \cup {None}, path : DOMAIN FileStem]) /\ want[l].args # <<>>
      BY RequestsAssumption DEF LInv, TypeOK, Order
    <2>2. Len(models[l]) = Len(want[l].args) /\ models[l] # <<>>
      BY <2>1 DEF LInv, TypeOK, Order
    <2>3. \A i \in DOMAIN models[l] : models[l][i] = Loaded(l, i)
      BY DEF LInv, Order
    <2> QED BY <2>2, <2>3, LoadedFields
  <1> QED BY <1>1, LoadInvariance, PTL
----------------------------------------------------------------------------
(* What the listing says of a model against what a request for it meets.   *)

LEMMA InfosTyped ==
  ASSUME LInv, NEW l \in Loaders
  PROVE  /\ Infos(l) = [i \in DOMAIN models[l] |-> ModelInfo(Specs(l)[i])]
         /\ \E n \in Nat : DOMAIN models[l] = 1..n
         /\ \A i \in DOMAIN models[l] : /\ i \in DOMAIN Specs(l) /\ Infos(l)[i].id = Specs(l)[i].alias
                                        /\ Infos(l)[i].translates \in BOOLEAN /\ Infos(l)[i].targets \in Seq(Code)
                                        /\ Infos(l)[i].limit \in Nat
  <1>1. want[l].args \in Seq([alias : STRING \cup {None}, path : DOMAIN FileStem])
    BY RequestsAssumption DEF LInv, TypeOK
  <1>2. DOMAIN models[l] = 1..Len(models[l]) /\ Len(models[l]) \in Nat /\ Len(models[l]) <= Len(want[l].args)
    BY DEF LInv, TypeOK, Order
  <1>3. DOMAIN models[l] \subseteq DOMAIN want[l].args /\ DOMAIN Specs(l) = DOMAIN want[l].args
    BY <1>1, <1>2 DEF Specs, ModelSpecs
  <1>4. \A i \in DOMAIN models[l] : models[l][i].info = ModelInfo(Specs(l)[i])
    <2>1. \A i \in DOMAIN models[l] : models[l][i] = Loaded(l, i)
      BY DEF LInv, Order
    <2>2. \A i : Loaded(l, i).info = ModelInfo(Specs(l)[i])
      BY DEF Loaded
    <2> QED BY <2>1, <2>2
  <1>5. ASSUME NEW i \in DOMAIN models[l]
        PROVE  Specs(l)[i].path \in DOMAIN FileStem
    <2>1. Specs(l)[i].path = want[l].args[i].path
      BY <1>3, <1>5 DEF Specs, ModelSpecs
    <2>2. i \in DOMAIN want[l].args
      BY <1>3
    <2>3. want[l].args[i] \in [alias : STRING \cup {None}, path : DOMAIN FileStem]
      <3>1. \A S : want[l].args \in Seq(S) => \A j \in DOMAIN want[l].args : want[l].args[j] \in S
        OBVIOUS
      <3> QED BY <1>1, <2>2, <3>1, Zenon
    <2>4. want[l].args[i].path \in DOMAIN FileStem
      BY <2>3, Zenon
    <2> QED BY <2>1, <2>4
  <1>6. ASSUME NEW spec, spec.path \in DOMAIN FileStem
        PROVE  /\ ModelInfo(spec).id = spec.alias /\ ModelInfo(spec).translates \in BOOLEAN
               /\ ModelInfo(spec).targets \in Seq(Code) /\ ModelInfo(spec).limit \in Nat
    BY <1>6, CapabilitiesAssumption DEF ModelInfo
  <1> QED BY <1>2, <1>3, <1>4, <1>5, <1>6 DEF Infos

(* A request that names the i-th model runs on it, if no other has its name. *)
LEMMA NamedModel ==
  ASSUME NEW infos, NEW n \in Nat, DOMAIN infos = 1..n, Len(infos) = n, NEW i \in 1..n,
         \A j \in 1..n : infos[j].id = infos[i].id => j = i
  PROVE  ResolveModel(infos, infos[i].id) = infos[i]
  <1> DEFINE at == {j \in 1..n : infos[j].id = infos[i].id}
  <1>1. ResolveModel(infos, infos[i].id) = infos[IF (IF at # {} THEN Min(at) ELSE 0) = 0 THEN 1 ELSE IF at # {} THEN Min(at) ELSE 0]
    BY Zenon DEF ResolveModel, SelectInSeq
  <1>2. at = {i}
    OBVIOUS
  <1> HIDE DEF at
  <1>3. Min({i}) = i
    BY DEF Min
  <1> QED BY <1>1, <1>2, <1>3

(* The chunks of a model with a limit stay short of it. *)
LEMMA ChunkBelowLimit ==
  ASSUME NEW model, model.limit \in Nat, model.limit > 0
  PROVE  ChunkMax(model) < model.limit
  <1>1. ASSUME NEW limit \in Nat, limit > 0
        PROVE  WindowInside(limit) \in Int /\ WindowInside(limit) < limit
    BY <1>1, ChunkLengthAssumption DEF WindowInside
  <1>2. WindowInside(model.limit) \in Int /\ WindowInside(model.limit) < model.limit
    BY <1>1
  <1> QED BY <1>2, ChunkLengthAssumption DEF ChunkMax

LEMMA ObjectKept ==
  ASSUME NEW l, NEW model, model.translates \in BOOLEAN, model.targets \in Seq(Code), model.limit \in Nat,
         DOMAIN model = {"id", "arch", "translates", "targets", "limit"},
         ResolveModel(Infos(l), model.id) = model
  PROVE  Kept(l, ModelObject(model))
  <1> DEFINE object == ModelObject(model)
  <1>1. /\ object.id = model.id /\ object.translates = model.translates
        /\ "targets" \in DOMAIN object => object.targets = model.targets
        /\ "limit" \in DOMAIN object => object.limit = model.limit /\ model.limit # 0
    BY DEF ModelObject
  <1> HIDE DEF object
  <1>2. ResolveModel(Infos(l), object.id) = model
    BY <1>1
  <1>3. object.translates <=> ~TranslationRefused(model, None)
    BY <1>1 DEF TranslationRefused
  <1>4. ASSUME model.translates, NEW i \in DOMAIN model.targets
        PROVE  ~TranslationRefused(model, model.targets[i])
    BY <1>4 DEF TranslationRefused, LanguageEq
  <1>5. "limit" \in DOMAIN object => ChunkMax(model) < object.limit
    BY <1>1, ChunkBelowLimit
  <1>6. "targets" \in DOMAIN object /\ object.translates =>
          \A i \in DOMAIN object.targets : ~TranslationRefused(model, object.targets[i])
    BY <1>1, <1>4
  <1> QED BY <1>2, <1>3, <1>5, <1>6 DEF Kept, object

(* With aliases that differ, what the listing says of a model holds of the *)
(* model a request naming it runs on.                                      *)
THEOREM ListingTrue == Spec => []ListingHolds
  <1>1. LInv => ListingHolds
    <2> SUFFICES ASSUME LInv, NEW l \in Loaders, Distinct(Specs(l)), pc[l] = "ready", NEW i \in DOMAIN Infos(l)
                 PROVE  Kept(l, ModelObject(Infos(l)[i]))
      BY DEF ListingHolds, ListingKept
    <2> DEFINE model == Infos(l)[i]
    <2>1. PICK n \in Nat : DOMAIN models[l] = 1..n
      BY InfosTyped
    <2>2. /\ Infos(l) = [j \in 1..n |-> ModelInfo(Specs(l)[j])]
          /\ \A j \in 1..n : /\ j \in DOMAIN Specs(l) /\ Infos(l)[j].id = Specs(l)[j].alias
                             /\ Infos(l)[j].translates \in BOOLEAN /\ Infos(l)[j].targets \in Seq(Code)
                             /\ Infos(l)[j].limit \in Nat
      BY <2>1, InfosTyped
    <2>3. DOMAIN Infos(l) = 1..n /\ Len(Infos(l)) = n /\ i \in 1..n
      <3>1. DOMAIN Infos(l) = 1..n
        BY <2>2
      <3> QED BY <3>1
    <2>4. \A j \in 1..n : Infos(l)[j].id = Infos(l)[i].id => j = i
      BY <2>2, <2>3 DEF Distinct
    <2>5. ResolveModel(Infos(l), model.id) = model
      <3> HIDE DEF model
      <3>1. ResolveModel(Infos(l), Infos(l)[i].id) = Infos(l)[i]
        BY <2>3, <2>4, NamedModel
      <3> QED BY <3>1 DEF model
    <2>6. DOMAIN model = {"id", "arch", "translates", "targets", "limit"}
      <3>1. model = ModelInfo(Specs(l)[i])
        BY <2>2, <2>3
      <3> QED BY <3>1 DEF ModelInfo
    <2>7. model.translates \in BOOLEAN /\ model.targets \in Seq(Code) /\ model.limit \in Nat
      BY <2>2, <2>3
    <2> HIDE DEF model
    <2>8. Kept(l, ModelObject(model))
      BY <2>5, <2>6, <2>7, ObjectKept
    <2> QED BY <2>8 DEF model
  <1> QED BY <1>1, LoadInvariance, PTL
=============================================================================
