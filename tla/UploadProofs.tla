---------------------------- MODULE UploadProofs ----------------------------
(***************************************************************************)
(* One upload, for any catalogue, recording, transcripts and chunk length: *)
(* UInv is inductive, and what the request and its answer promise follows. *)
(***************************************************************************)
EXTENDS Upload, ChunkCutProofs

----------------------------------------------------------------------------
(* Split tiles a recording.                                                *)

(* Ranges of w samples at most, from one position to another. *)
TilesFrom(rs, from, to, w) ==
  /\ rs \in Seq(Nat \X Nat)
  /\ \A i \in DOMAIN rs :
       /\ rs[i][1] = IF i = 1 THEN from ELSE rs[i - 1][2]
       /\ rs[i][1] < rs[i][2] /\ rs[i][2] - rs[i][1] <= w
  /\ to = IF rs = <<>> THEN from ELSE rs[Len(rs)][2]

LEMMA TilesPrepend ==
  ASSUME NEW from \in Nat, NEW to \in Nat, NEW n \in Nat, NEW w \in Nat, NEW rs,
         from < to, to - from <= w, TilesFrom(rs, to, n, w)
  PROVE  TilesFrom(<<<<from, to>>>> \o rs, from, n, w)
<1> DEFINE r == <<from, to>>
           all == <<r>> \o rs
<1>1. r \in Nat \X Nat /\ r[1] = from /\ r[2] = to /\ rs \in Seq(Nat \X Nat)
  BY DEF TilesFrom
<1> HIDE DEF r
<1>2. /\ all \in Seq(Nat \X Nat) /\ Len(all) = Len(rs) + 1 /\ all[1] = r
      /\ \A i \in 1..Len(rs) : all[i + 1] = rs[i]
  BY <1>1
<1> HIDE DEF all
<1>3. Len(rs) \in Nat /\ DOMAIN rs = 1..Len(rs) /\ DOMAIN all = 1..(Len(rs) + 1) /\ all # <<>>
  BY <1>1, <1>2
<1>4. ASSUME NEW i \in DOMAIN all
      PROVE  /\ all[i][1] = IF i = 1 THEN from ELSE all[i - 1][2]
             /\ all[i][1] < all[i][2] /\ all[i][2] - all[i][1] <= w
  <2>1. CASE i = 1
    BY <1>1, <1>2, <2>1
  <2>2. CASE i # 1
    <3>1. i - 1 \in 1..Len(rs) /\ (i - 1) + 1 = i
      BY <1>3, <2>2
    <3>2. all[i] = rs[i - 1]
      BY <1>2, <3>1
    <3>3. /\ rs[i - 1][1] = IF i - 1 = 1 THEN to ELSE rs[(i - 1) - 1][2]
          /\ rs[i - 1][1] < rs[i - 1][2] /\ rs[i - 1][2] - rs[i - 1][1] <= w
      BY <1>3, <3>1 DEF TilesFrom
    <3>4. CASE i - 1 = 1
      BY <1>1, <1>2, <2>2, <3>2, <3>3, <3>4
    <3>5. CASE i - 1 # 1
      <4>1. (i - 1) - 1 \in 1..Len(rs) /\ ((i - 1) - 1) + 1 = i - 1
        BY <1>3, <3>1, <3>5
      <4>2. all[i - 1] = rs[(i - 1) - 1]
        BY <1>2, <4>1
      <4> QED BY <2>2, <3>2, <3>3, <3>5, <4>2
    <3> QED BY <3>4, <3>5
  <2> QED BY <2>1, <2>2
<1>5. n = all[Len(all)][2]
  <2>1. CASE rs = <<>>
    BY <1>1, <1>2, <1>3, <2>1 DEF TilesFrom
  <2>2. CASE rs # <<>>
    <3>1. Len(rs) \in 1..Len(rs)
      BY <1>1, <1>3, <2>2
    <3>2. all[Len(all)] = rs[Len(rs)]
      BY <1>2, <3>1
    <3> QED BY <2>2, <3>2 DEF TilesFrom
  <2> QED BY <2>1, <2>2
<1> QED BY <1>2, <1>3, <1>4, <1>5 DEF TilesFrom, all, r

(* Ranges from each position of 0..n to the end, by where a range that     *)
(* begins there is cut.                                                    *)
Follows(rest, cut, n, from) ==
  rest[from] = IF from = n THEN <<>> ELSE <<<<from, cut[from]>>>> \o rest[cut[from]]

LEMMA RestExists ==
  ASSUME NEW n \in Nat, NEW cut, \A from \in 0..(n - 1) : cut[from] \in (from + 1)..n
  PROVE  \E rest \in [0..n -> Seq(Nat \X Nat)] : \A from \in 0..n : Follows(rest, cut, n, from)
<1> DEFINE Ends(k, rest) == \A from \in (n - k)..n : Follows(rest, cut, n, from)
           Some(k) == \E rest \in [(n - k)..n -> Seq(Nat \X Nat)] : Ends(k, rest)
           T == {k \in Nat : k <= n => Some(k)}
<1>1. Some(0)
  <2> DEFINE rest == [from \in (n - 0)..n |-> <<>>]
  <2>1. rest \in [(n - 0)..n -> Seq(Nat \X Nat)]
    OBVIOUS
  <2>2. Ends(0, rest)
    BY DEF Follows
  <2> HIDE DEF rest
  <2> QED BY <2>1, <2>2
<1>2. ASSUME NEW k \in Nat, k + 1 <= n, Some(k)
      PROVE  Some(k + 1)
  <2>1. PICK old \in [(n - k)..n -> Seq(Nat \X Nat)] : Ends(k, old)
    BY <1>2
  <2> DEFINE at == n - (k + 1)
             rest == [from \in at..n |-> IF from = at THEN <<<<at, cut[at]>>>> \o old[cut[at]] ELSE old[from]]
  <2>2. at \in 0..(n - 1) /\ at + 1 = n - k
    BY <1>2
  <2>3. cut[at] \in (at + 1)..n
    BY <2>2
  <2> HIDE DEF at
  <2>4. old[cut[at]] \in Seq(Nat \X Nat) /\ <<<<at, cut[at]>>>> \in Seq(Nat \X Nat)
    BY <2>1, <2>2, <2>3
  <2>5. <<<<at, cut[at]>>>> \o old[cut[at]] \in Seq(Nat \X Nat)
    BY <2>4
  <2>6. rest \in [at..n -> Seq(Nat \X Nat)]
    <3>1. ASSUME NEW from \in at..n
          PROVE  (IF from = at THEN <<<<at, cut[at]>>>> \o old[cut[at]] ELSE old[from]) \in Seq(Nat \X Nat)
      <4>1. CASE from = at
        BY <2>5, <4>1
      <4>2. CASE from # at
        <5>1. from \in (n - k)..n
          BY <2>2, <4>2
        <5> QED BY <2>1, <4>2, <5>1
      <4> QED BY <4>1, <4>2
    <3> QED BY <3>1
  <2>7. ASSUME NEW from \in at..n
        PROVE  Follows(rest, cut, n, from)
    <3>1. CASE from = at
      <4>1. rest[cut[at]] = old[cut[at]] /\ at # n
        BY <2>2, <2>3
      <4>2. rest[at] = <<<<at, cut[at]>>>> \o old[cut[at]]
        BY <2>7, <3>1
      <4> HIDE DEF rest
      <4> QED BY <3>1, <4>1, <4>2 DEF Follows
    <3>2. CASE from # at
      <4>1. from \in (n - k)..n
        BY <2>2, <3>2
      <4>2. Follows(old, cut, n, from)
        BY <2>1, <4>1
      <4>3. rest[from] = old[from]
        BY <3>2
      <4>4. CASE from = n
        BY <4>2, <4>3, <4>4 DEF Follows
      <4>5. CASE from # n
        <5>1. from \in 0..(n - 1)
          BY <2>2, <4>1, <4>5
        <5>2. cut[from] \in (from + 1)..n
          BY <5>1
        <5>3. rest[cut[from]] = old[cut[from]]
          BY <2>2, <4>1, <5>2, SMTT(30)
        <5> HIDE DEF rest
        <5> QED BY <4>2, <4>3, <4>5, <5>3 DEF Follows
      <4> QED BY <4>4, <4>5
    <3> QED BY <3>1, <3>2
  <2> HIDE DEF rest
  <2> QED BY <2>6, <2>7 DEF at
<1> HIDE DEF Some
<1>3. \A k \in Nat : k \in T
  <2>1. 0 \in T
    BY <1>1
  <2>2. ASSUME NEW k \in Nat, k \in T
        PROVE  k + 1 \in T
    BY <1>2, <2>2
  <2> HIDE DEF T
  <2> QED BY <2>1, <2>2, Induction
<1>4. Some(n) /\ n - n = 0
  BY <1>3
<1> QED BY <1>4 DEF Some

LEMMA RestTiles ==
  ASSUME NEW n \in Nat, NEW w \in Nat, NEW cut,
         \A from \in 0..(n - 1) : cut[from] \in (from + 1)..n /\ cut[from] - from <= w,
         NEW rest, \A from \in 0..n : Follows(rest, cut, n, from)
  PROVE  TilesFrom(rest[0], 0, n, w)
<1> DEFINE T == {k \in Nat : \A from \in 0..n : n - from <= k => TilesFrom(rest[from], from, n, w)}
<1>1. 0 \in T
  <2>1. ASSUME NEW from \in 0..n, n - from <= 0
        PROVE  TilesFrom(rest[from], from, n, w)
    <3>1. from = n
      BY <2>1
    <3>2. rest[from] = <<>>
      BY <3>1 DEF Follows
    <3> QED BY <3>1, <3>2 DEF TilesFrom
  <2> QED BY <2>1
<1>2. ASSUME NEW k \in Nat, k \in T
      PROVE  k + 1 \in T
  <2>1. ASSUME NEW from \in 0..n, n - from <= k + 1
        PROVE  TilesFrom(rest[from], from, n, w)
    <3>1. CASE from = n
      <4>1. rest[from] = <<>>
        BY <3>1 DEF Follows
      <4> QED BY <3>1, <4>1 DEF TilesFrom
    <3>2. CASE from # n
      <4>1. from \in 0..(n - 1)
        BY <3>2
      <4>2. cut[from] \in (from + 1)..n /\ cut[from] - from <= w
        BY <4>1
      <4>3. cut[from] \in 0..n /\ n - cut[from] <= k
        BY <2>1, <4>1, <4>2
      <4>4. TilesFrom(rest[cut[from]], cut[from], n, w)
        BY <1>2, <4>3
      <4>5. TilesFrom(<<<<from, cut[from]>>>> \o rest[cut[from]], from, n, w)
        BY <4>2, <4>3, <4>4, TilesPrepend
      <4> QED BY <3>2, <4>5 DEF Follows
    <3> QED BY <3>1, <3>2
  <2> QED BY <2>1
<1>3. \A k \in Nat : k \in T
  <2> HIDE DEF T
  <2> QED BY <1>1, <1>2, Induction
<1>4. n \in T /\ 0 \in 0..n /\ n - 0 <= n
  BY <1>3
<1> QED BY <1>4

(* Whatever the recording, its ranges tile it.                             *)
LEMMA SplitTiles ==
  ASSUME NEW recording \in Seq(Sample), NEW max \in Nat
  PROVE  TilesFrom(Split(recording, max), 0, Len(recording), Window(max))
<1> DEFINE n == Len(recording)
           cut == [from \in 0..n |-> FirstCut(recording, from, max)]
           rest == CHOOSE rest : rest = [from \in 0..n |->
             IF from = n THEN <<>>
             ELSE <<<<from, FirstCut(recording, from, max)>>>> \o rest[FirstCut(recording, from, max)]]
<1>1. n \in Nat /\ Window(max) \in Nat
  <2> HIDE DEF cut, rest
  <2>1. n \in Nat
    OBVIOUS
  <2>2. Window(max) \in Nat
    BY WindowType
  <2> QED BY <2>1, <2>2
<1>2. ASSUME NEW from \in 0..(n - 1)
      PROVE  cut[from] \in (from + 1)..n /\ cut[from] - from <= Window(max)
  <2>1. from \in Nat /\ from < n /\ from \in 0..n
    BY <1>1
  <2>2. cut[from] = FirstCut(recording, from, max)
    BY <2>1
  <2> HIDE DEF cut
  <2> QED BY <1>1, <2>1, <2>2, CutBounds
<1>3. Split(recording, max) = rest[0]
  BY Zenon DEF Split
<1>4. PICK h \in [0..n -> Seq(Nat \X Nat)] : \A from \in 0..n : Follows(h, cut, n, from)
  <2> HIDE DEF n, cut
  <2> QED BY <1>1, <1>2, RestExists
<1>5. ASSUME NEW from \in 0..n
      PROVE  cut[from] = FirstCut(recording, from, max)
  OBVIOUS
<1> HIDE DEF cut
<1>6. h = [from \in 0..n |->
        IF from = n THEN <<>>
        ELSE <<<<from, FirstCut(recording, from, max)>>>> \o h[FirstCut(recording, from, max)]]
  <2> HIDE DEF n
  <2> QED BY <1>4, <1>5 DEF Follows
<1>7. rest = [from \in 0..n |->
        IF from = n THEN <<>>
        ELSE <<<<from, FirstCut(recording, from, max)>>>> \o rest[FirstCut(recording, from, max)]]
  BY <1>6, Zenon
<1> HIDE DEF rest
<1>8. \A from \in 0..n : Follows(rest, cut, n, from)
  <2> HIDE DEF n
  <2> QED BY <1>5, <1>7 DEF Follows
<1>9. TilesFrom(rest[0], 0, n, Window(max))
  <2> HIDE DEF n
  <2> QED BY <1>1, <1>2, <1>8, RestTiles
<1> QED BY <1>3, <1>9

----------------------------------------------------------------------------
(* The catalogue.                                                          *)

(* SelectInSeq, of a predicate given by the set of its positions: the first *)
(* of them, or 0.                                                          *)
LEMMA FirstPosition ==
  ASSUME NEW n \in Nat, NEW at, at \subseteq 1..n
  PROVE  LET i == IF at = {} THEN 0 ELSE Min(at)
         IN  /\ at = {} => i = 0
             /\ at # {} => i \in at /\ \A j \in at : i <= j
<1>1. CASE at = {}
  BY <1>1
<1>2. CASE at # {}
  <2>1. at \subseteq Nat
    OBVIOUS
  <2>2. PICK i \in at : \A j \in at : i <= j
    BY <1>2, <2>1, LeastExists
  <2>3. Min(at) \in at /\ \A j \in at : Min(at) <= j
    BY <2>2 DEF Min
  <2> QED BY <1>2, <2>3
<1> QED BY <1>1, <1>2

(* The engine's rule and the server's name the same model, and what is     *)
(* known of it.                                                            *)
LEMMA SameModel ==
  ASSUME NEW alias
  PROVE  /\ EngineResolve(Catalogue, alias) = ResolveModel(Catalogue, alias)
         /\ ResolveModel(Catalogue, alias) \in Info
         /\ LET limit == ResolveModel(Catalogue, alias).limit IN limit = 0 \/ limit > Frame
<1> DEFINE n == Len(Catalogue)
           at == {i \in 1..n : Catalogue[i].id = alias}
<1>1. n \in Nat /\ 1 \in 1..n /\ DOMAIN Catalogue = 1..n
  BY CatalogueAssumption
<1>2. \A i \in 1..n : Catalogue[i] \in Info /\ (Catalogue[i].limit = 0 \/ Catalogue[i].limit > Frame)
  BY CatalogueAssumption
<1>3. ResolveModel(Catalogue, alias) = Catalogue[IF (IF at = {} THEN 0 ELSE Min(at)) = 0 THEN 1 ELSE IF at = {} THEN 0 ELSE Min(at)]
  BY Zenon DEF ResolveModel, SelectInSeq
<1>4. CASE at = {}
  <2>1. ResolveModel(Catalogue, alias) = Catalogue[1]
    BY <1>3, <1>4
  <2>2. EngineResolve(Catalogue, alias) = Catalogue[1]
    BY <1>1, <1>4 DEF EngineResolve
  <2> QED BY <1>1, <1>2, <2>1, <2>2
<1>5. CASE at # {}
  <2>1. Min(at) \in at /\ \A j \in at : Min(at) <= j
    <3>1. at \subseteq 1..n
      OBVIOUS
    <3> HIDE DEF at, n
    <3> QED BY <1>1, <1>5, <3>1, FirstPosition
  <2> DEFINE first == Min(at)
  <2>2. first \in 1..n /\ first # 0 /\ Catalogue[first].id = alias
    BY <2>1
  <2>3. \A j \in 1..(first - 1) : Catalogue[j].id # alias
    BY <2>1, <2>2
  <2>4. ResolveModel(Catalogue, alias) = Catalogue[first]
    BY <1>3, <1>5, <2>2
  <2>5. \A j \in at : first <= j
    BY <2>1
  <2> HIDE DEF first
  <2>6. ASSUME NEW i \in 1..n, Catalogue[i].id = alias, \A j \in 1..(i - 1) : Catalogue[j].id # alias
        PROVE  i = first
    <3>1. first <= i
      BY <2>5, <2>6
    <3> QED BY <1>1, <2>2, <2>6, <3>1
  <2>7. EngineResolve(Catalogue, alias) = Catalogue[first]
    BY <1>1, <2>2, <2>3, <2>6 DEF EngineResolve
  <2> QED BY <1>2, <2>2, <2>4, <2>7
<1> QED BY <1>4, <1>5

(* The target the engine is handed: a code, in the model's own spelling if *)
(* it lists any, which the engine's own check lets through.                *)
LEMMA CanonicalSpelling ==
  ASSUME NEW model \in Info, NEW code \in Code, ~TranslationRefused(model, code)
  PROVE  LET spelling == CanonicalTarget(model, code)
         IN  /\ spelling \in Code /\ LanguageEq(spelling, code)
             /\ IF model.targets = <<>> THEN ~spelling.spaced
                ELSE \E j \in DOMAIN model.targets : model.targets[j] = spelling
             /\ ~TranslationRefused(model, spelling)
<1> DEFINE targets == model.targets
           n == Len(targets)
           at == {i \in 1..n : LanguageEq(targets[i], code)}
<1>1. targets \in Seq(Code) /\ n \in Nat /\ DOMAIN targets = 1..n /\ \A i \in 1..n : targets[i] \in Code
  BY DEF Info
<1>2. CanonicalTarget(model, code) = LET i == IF at = {} THEN 0 ELSE Min(at) IN IF i = 0 THEN Trim(code) ELSE targets[i]
  BY Zenon DEF CanonicalTarget, SelectInSeq
<1>3. model.translates /\ (targets = <<>> \/ at # {})
  <2>1. code # None
    BY CodeAssumption
  <2> QED BY <1>1, <2>1 DEF TranslationRefused
<1>4. CASE at = {}
  <2>1. CanonicalTarget(model, code) = Trim(code) /\ targets = <<>>
    BY <1>2, <1>3, <1>4
  <2>2. Trim(code) \in Code /\ Trim(code).name = code.name /\ ~Trim(code).spaced
    BY DEF Trim, Code
  <2> QED BY <1>3, <2>1, <2>2 DEF LanguageEq, TranslationRefused
<1>5. CASE at # {}
  <2>1. Min(at) \in at
    <3>1. at \subseteq 1..n
      OBVIOUS
    <3> HIDE DEF at, n
    <3> QED BY <1>1, <1>5, <3>1, FirstPosition
  <2> DEFINE first == Min(at)
  <2>2. first \in 1..n /\ first # 0 /\ LanguageEq(targets[first], code)
    BY <2>1
  <2>3. CanonicalTarget(model, code) = targets[first]
    BY <1>2, <1>5, <2>2
  <2> HIDE DEF first
  <2>4. targets # <<>>
    BY <1>1, <2>2
  <2> QED BY <1>1, <1>3, <2>2, <2>3, <2>4 DEF LanguageEq, TranslationRefused
<1> QED BY <1>4, <1>5

(* A chunk is as long as --chunk-max-sec says, or stays clear of a limit.  *)
LEMMA ChunkMaxBounds ==
  ASSUME NEW model \in Info
  PROVE  /\ ChunkMax(model) \in Nat /\ ChunkMax(model) <= Configured
         /\ model.limit > 0 => ChunkMax(model) < model.limit
<1>1. model.limit \in Nat
  BY DEF Info
<1>2. CASE model.limit = 0
  BY <1>2, ChunkAssumption DEF ChunkMax
<1>3. CASE model.limit > 0
  <2>1. model.limit \div 2 \in Nat /\ model.limit \div 2 < model.limit
    BY <1>1, <1>3
  <2>2. WindowInside(model.limit) \in Nat /\ WindowInside(model.limit) < model.limit
    BY <1>1, <1>3, <2>1, ChunkAssumption DEF WindowInside
  <2> QED BY <1>1, <1>3, <2>2, ChunkAssumption DEF ChunkMax
<1> QED BY <1>1, <1>2, <1>3

----------------------------------------------------------------------------
(* UInv is inductive.                                                      *)

(* What a field can be. *)
LEMMA FieldType ==
  ASSUME FieldsInv
  PROVE  /\ Field("file") \in Seq(Sample) \cup {Garbage, None}
         /\ \A name \in {"language", "target_language", "pnc", "itn"} : Field(name) \in Code \cup {None}
<1>1. ASSUME NEW name \in FieldNames, Field(name) # None
      PROVE  name \in DOMAIN FieldValues /\ Field(name) \in FieldValues[name]
  BY <1>1 DEF Field, FieldsInv
<1>2. Field("file") \in Seq(Sample) \cup {Garbage, None}
  <2>1. CASE Field("file") = None
    BY <2>1
  <2>2. CASE Field("file") # None
    <3>1. "file" \in DOMAIN FieldValues /\ Field("file") \in FieldValues["file"]
      BY <1>1, <2>2 DEF FieldNames
    <3>2. FieldValues["file"] \subseteq Seq(Sample) \cup {Garbage}
      BY <3>1, FieldsAssumption
    <3> QED BY <3>1, <3>2
  <2> QED BY <2>1, <2>2
<1>4. ASSUME NEW name \in {"language", "target_language", "pnc", "itn"}
      PROVE  Field(name) \in Code \cup {None}
  <2>1. CASE Field(name) = None
    BY <2>1
  <2>2. CASE Field(name) # None
    <3>1. name \in DOMAIN FieldValues /\ Field(name) \in FieldValues[name]
      BY <1>1, <2>2 DEF FieldNames
    <3> QED BY <3>1, FieldsAssumption
  <2> QED BY <2>1, <2>2
<1> QED BY <1>2, <1>4

(* The engine's times, made absolute. *)
LEMMA ShiftedInside ==
  ASSUME NEW transcript \in Transcript, NEW offset \in Nat, NEW length \in Nat,
         Inside(transcript.segments, 0, length), Inside(transcript.words, 0, length)
  PROVE  LET moved == Shifted(transcript, offset)
         IN  /\ moved \in Transcript
             /\ Inside(moved.segments, offset, offset + length)
             /\ Inside(moved.words, offset, offset + length)
<1> DEFINE Later(rows) == [i \in DOMAIN rows |-> [rows[i] EXCEPT !.start = @ + offset, !.end = @ + offset]]
<1>1. ASSUME NEW rows \in Seq(Row), Inside(rows, 0, length)
      PROVE  Later(rows) \in Seq(Row) /\ Inside(Later(rows), offset, offset + length)
  <2>1. \A i \in DOMAIN rows : rows[i] \in Row
    OBVIOUS
  <2>2. DOMAIN Later(rows) = DOMAIN rows
    OBVIOUS
  <2>3. ASSUME NEW i \in DOMAIN rows
        PROVE  /\ Later(rows)[i] \in Row
               /\ Later(rows)[i].start = rows[i].start + offset /\ Later(rows)[i].end = rows[i].end + offset
    <3>1. rows[i] \in Row
      BY <2>1
    <3>2. Later(rows)[i] = [start |-> rows[i].start + offset, end |-> rows[i].end + offset, text |-> rows[i].text]
      <4>1. Later(rows)[i] = [rows[i] EXCEPT !.start = @ + offset, !.end = @ + offset]
        OBVIOUS
      <4> HIDE DEF Later
      <4> QED BY <3>1, <4>1 DEF Row
    <3>3. rows[i].start \in Nat /\ rows[i].end \in Nat /\ rows[i].text \in BOOLEAN
      BY <3>1 DEF Row
    <3>4. rows[i].start + offset \in Nat /\ rows[i].end + offset \in Nat
      BY <3>3
    <3> HIDE DEF Later
    <3>5. Later(rows)[i] \in Row
      <4>1. ASSUME NEW start \in Nat, NEW end \in Nat, NEW text \in BOOLEAN
            PROVE  [start |-> start, end |-> end, text |-> text] \in Row
        BY DEF Row
      <4> QED BY <3>2, <3>3, <3>4, <4>1
    <3> QED BY <3>2, <3>5
  <2>4. Later(rows) \in Seq(Row)
    <3>1. DOMAIN rows = 1..Len(rows) /\ Len(rows) \in Nat
      OBVIOUS
    <3>2. \A i \in 1..Len(rows) : Later(rows)[i] \in Row
      BY <2>3, <3>1
    <3>3. DOMAIN Later(rows) = 1..Len(rows) /\ Later(rows) = [i \in 1..Len(rows) |-> Later(rows)[i]]
      BY <3>1
    <3> HIDE DEF Later
    <3> QED BY <3>1, <3>2, <3>3
  <2> HIDE DEF Later
  <2>5. ASSUME NEW i \in DOMAIN rows, NEW j \in DOMAIN rows
        PROVE  /\ offset <= Later(rows)[i].start /\ Later(rows)[i].start <= Later(rows)[i].end
               /\ Later(rows)[i].end <= offset + length
               /\ i < j => Later(rows)[i].end <= Later(rows)[j].start
    <3>1. /\ 0 <= rows[i].start /\ rows[i].start <= rows[i].end /\ rows[i].end <= length
          /\ i < j => rows[i].end <= rows[j].start
      BY <1>1 DEF Inside
    <3>2. rows[i].start \in Nat /\ rows[i].end \in Nat /\ rows[j].start \in Nat
      BY <2>1 DEF Row
    <3> QED BY <2>3, <3>1, <3>2, SMTT(30)
  <2> QED BY <2>2, <2>4, <2>5 DEF Inside
<1>2. transcript.segments \in Seq(Row) /\ transcript.words \in Seq(Row)
  BY DEF Transcript
<1>3. Shifted(transcript, offset) =
        [transcript EXCEPT !.segments = Later(transcript.segments), !.words = Later(transcript.words)]
  BY DEF Shifted
<1> HIDE DEF Later
<1>4. Shifted(transcript, offset) \in Transcript
  BY <1>1, <1>2, <1>3 DEF Transcript
<1>5. /\ Shifted(transcript, offset).segments = Later(transcript.segments)
      /\ Shifted(transcript, offset).words = Later(transcript.words)
  BY <1>3 DEF Transcript
<1> QED BY <1>1, <1>2, <1>4, <1>5

LEMMA InitUInv == Init => UInv
<1> SUFFICES ASSUME Init PROVE UInv
  OBVIOUS
<1>1. FieldsInv
  BY DEF Init, FieldsInv
<1>2. CheckedInv
  BY DEF Init, CheckedInv, NoAnswer
<1>3. RangesInv
  BY DEF Init, RangesInv
<1>4. ChunksInv
  BY DEF Init, ChunksInv
<1>5. AnswerInv
  BY DEF Init, AnswerInv
<1> QED BY <1>1, <1>2, <1>3, <1>4, <1>5 DEF UInv

(* An error is answered from where nothing is but what has been read and   *)
(* transcribed.                                                            *)
LEMMA RefuseKeeps ==
  ASSUME UInv, pc \notin {"answered", "abandoned"},
         NEW status \in {"too_large", "invalid_body", "bad_request", "busy", "internal"},
         status \in {"bad_request", "busy", "internal"} => pc # "reading",
         Refuse(status), UNCHANGED <<task, fields, drained, target, pcm, ranges, chunks>>
  PROVE  UInv'
<1>1. answer' = Failure(status) /\ pc' = "answered" /\ Failure(status).status = status
  BY DEF Refuse, Failure, NoAnswer
<1>2. FieldsInv'
  BY <1>1 DEF UInv, FieldsInv
<1>3. CheckedInv'
  <2>1. answer'.status # "ok"
    BY <1>1
  <2>2. chunks # <<>> => Acceptable /\ target = HandedTarget
    BY DEF UInv, CheckedInv
  <2>3. Acceptable' = Acceptable /\ HandedTarget' = HandedTarget
    BY DEF Acceptable, HandedTarget, Field, Model
  <2> QED BY <1>1, <2>1, <2>2, <2>3 DEF CheckedInv
<1>4. RangesInv'
  BY DEF UInv, RangesInv, Model, Field
<1>5. ChunksInv'
  BY DEF UInv, ChunksInv, Chunk, Asked, Options, Hint, Field
<1>6. AnswerInv'
  BY <1>1 DEF UInv, FieldsInv, AnswerInv, Failure, NoAnswer
<1> QED BY <1>2, <1>3, <1>4, <1>5, <1>6 DEF UInv

(* Until it is read to its end the body only fills the fields. *)
LEMMA BodyStep ==
  ASSUME UInv,
         \/ \E name \in DOMAIN FieldValues : \E value \in FieldValues[name] : ReadField(name, value)
         \/ EndBody
  PROVE  UInv'
<1>1. /\ pc = "reading" /\ answer = NoAnswer /\ target = None /\ pcm = <<>> /\ ranges = <<>> /\ chunks = <<>>
      /\ UNCHANGED <<task, target, pcm, ranges, chunks, answer>> /\ pc' \in {"reading", "checking"}
  BY DEF UInv, CheckedInv, AnswerInv, ReadField, EndBody
<1>2. FieldsInv'
  <2>1. CASE EndBody
    BY <2>1 DEF EndBody, UInv, FieldsInv
  <2>2. ASSUME NEW name \in DOMAIN FieldValues, NEW value \in FieldValues[name], ReadField(name, value)
        PROVE  FieldsInv'
    <3>1. /\ DOMAIN fields' = DOMAIN fields \cup {name}
          /\ \A n \in DOMAIN fields' : fields'[n] = IF n = name THEN value ELSE fields[n]
          /\ pc' = "reading" /\ task' = task
      BY <2>2 DEF ReadField
    <3> QED BY <3>1 DEF UInv, FieldsInv
  <2> QED BY <2>1, <2>2
<1>3. CheckedInv'
  BY <1>1 DEF CheckedInv, NoAnswer
<1>4. RangesInv'
  BY <1>1 DEF RangesInv
<1>5. ChunksInv'
  BY <1>1 DEF ChunksInv
<1>6. AnswerInv'
  BY <1>1 DEF AnswerInv
<1> QED BY <1>2, <1>3, <1>4, <1>5, <1>6 DEF UInv

LEMMA AcceptStep == UInv /\ Accept => UInv'
<1> SUFFICES ASSUME UInv, Accept PROVE UInv'
  OBVIOUS
<1>1. /\ pc = "checking" /\ pc' = "decoding" /\ Acceptable /\ target' = HandedTarget
      /\ pcm = <<>> /\ ranges = <<>> /\ chunks = <<>>
      /\ UNCHANGED <<task, fields, drained, pcm, ranges, chunks, answer>>
  BY DEF Accept, HandedTarget, UInv, CheckedInv
<1>2. FieldsInv'
  BY <1>1 DEF UInv, FieldsInv
<1>3. CheckedInv'
  <2>1. Acceptable' /\ target' = HandedTarget'
    BY <1>1 DEF Acceptable, HandedTarget, Field, Model
  <2> QED BY <1>1, <2>1 DEF CheckedInv
<1>4. RangesInv'
  BY <1>1 DEF RangesInv
<1>5. ChunksInv'
  BY <1>1 DEF ChunksInv
<1>6. AnswerInv'
  BY <1>1 DEF UInv, AnswerInv, NoAnswer
<1> QED BY <1>2, <1>3, <1>4, <1>5, <1>6 DEF UInv

LEMMA DecodeStep ==
  ASSUME UInv, Decode
  PROVE  UInv'
<1>1. CASE Field("file") = Garbage
  <2>1. pc = "decoding" /\ Refuse("bad_request") /\ UNCHANGED <<task, fields, drained, target, pcm, ranges, chunks>>
    BY <1>1 DEF Decode
  <2> QED BY <2>1, RefuseKeeps
<1>2. CASE Field("file") # Garbage
  <2> DEFINE max == ChunkMax(Model)
  <2>1. /\ pc = "decoding" /\ pc' = "transcribing" /\ pcm' = Field("file") /\ ranges' = Split(pcm', max)
        /\ UNCHANGED <<task, fields, drained, target, chunks, answer>>
    BY <1>2 DEF Decode
  <2>2. Acceptable /\ target = HandedTarget /\ chunks = <<>> /\ answer = NoAnswer
    BY <2>1 DEF UInv, CheckedInv, AnswerInv
  <2>3. pcm' \in Seq(Sample)
    BY <1>2, <2>1, <2>2, FieldType DEF UInv, Acceptable
  <2>4. max \in Nat
    BY SameModel, ChunkMaxBounds DEF Model
  <2>5. max' = max
    BY <2>1 DEF Model, Field
  <2> HIDE DEF max
  <2>6. TilesFrom(ranges', 0, Len(pcm'), Window(max))
    BY <2>1, <2>3, <2>4, SplitTiles
  <2>7. FieldsInv'
    BY <2>1 DEF UInv, FieldsInv
  <2>8. CheckedInv'
    <3>1. Acceptable' /\ target' = HandedTarget'
      BY <2>1, <2>2 DEF Acceptable, HandedTarget, Field, Model
    <3> QED BY <2>1, <3>1 DEF CheckedInv
  <2>9. RangesInv'
    BY <2>3, <2>5, <2>6 DEF RangesInv, TilesFrom, max
  <2>10. ChunksInv'
    <3>1. ranges' \in Seq(Nat \X Nat) /\ chunks' = <<>>
      BY <2>1, <2>2, <2>6 DEF TilesFrom
    <3> QED BY <3>1 DEF ChunksInv
  <2>11. AnswerInv'
    BY <2>1, <2>2 DEF AnswerInv
  <2> QED BY <2>7, <2>8, <2>9, <2>10, <2>11 DEF UInv
<1> QED BY <1>1, <1>2

LEMMA TranscribeStep ==
  ASSUME UInv, Transcribe
  PROVE  UInv'
<1> DEFINE n == Len(chunks)
           range == ranges[n + 1]
<1>1. /\ pc = "transcribing" /\ n < Len(ranges) /\ answer = NoAnswer
      /\ UNCHANGED <<pc, task, fields, drained, target, pcm, ranges, answer>>
  BY DEF Transcribe, UInv, AnswerInv
<1>2. n \in Nat /\ Len(ranges) \in Nat /\ n + 1 \in DOMAIN ranges /\ chunks \in Seq(Chunk)
  BY <1>1 DEF UInv, ChunksInv, RangesInv
<1>3. range \in Nat \X Nat /\ range[1] \in Nat /\ range[2] \in Nat /\ range[1] < range[2]
  BY <1>2 DEF UInv, RangesInv
<1> HIDE DEF n, range
<1>4. PICK transcript \in EngineReturns(Options, range[2] - range[1]) :
        chunks' = Append(chunks, [span |-> range, asked |-> Asked, transcript |-> Shifted(transcript, range[1])])
  BY DEF Transcribe, NextRange, range, n
<1> DEFINE moved == Shifted(transcript, range[1])
           chunk == [span |-> range, asked |-> Asked, transcript |-> moved]
<1>5. range[2] - range[1] \in Nat /\ range[1] + (range[2] - range[1]) = range[2]
  BY <1>3
<1>6. /\ moved \in Transcript
      /\ Inside(moved.segments, range[1], range[2]) /\ Inside(moved.words, range[1], range[2])
  <2>1. /\ transcript \in Transcript
        /\ Inside(transcript.segments, 0, range[2] - range[1]) /\ Inside(transcript.words, 0, range[2] - range[1])
    BY <1>4 DEF EngineReturns
  <2>2. LET length == range[2] - range[1] IN
        /\ moved \in Transcript
        /\ Inside(moved.segments, range[1], range[1] + length) /\ Inside(moved.words, range[1], range[1] + length)
    BY <1>3, <1>5, <2>1, ShiftedInside
  <2> QED BY <1>5, <2>2
<1> HIDE DEF moved
<1>7. chunk \in Chunk /\ chunk.span = range /\ chunk.transcript = moved
  BY <1>3, <1>6 DEF Chunk
<1> HIDE DEF chunk
<1>8. /\ chunks' \in Seq(Chunk) /\ Len(chunks') = n + 1 /\ DOMAIN chunks' = 1..(n + 1)
      /\ chunks'[n + 1] = chunk /\ \A i \in 1..n : chunks'[i] = chunks[i]
  <2>1. chunks' = Append(chunks, chunk)
    BY <1>4 DEF chunk, moved
  <2> QED BY <1>2, <1>7, <2>1, AppendElement, AppendProperties DEF n
<1>9. Chunk' = Chunk /\ Model' = Model
  BY <1>1 DEF Chunk, Asked, Options, Hint, Field, Model
<1>10. FieldsInv'
  BY <1>1 DEF UInv, FieldsInv
<1>11. CheckedInv'
  <2>1. Acceptable /\ target = HandedTarget
    BY <1>1 DEF UInv, CheckedInv
  <2>2. Acceptable' /\ target' = HandedTarget'
    BY <1>1, <2>1 DEF Acceptable, HandedTarget, Field, Model
  <2> QED BY <1>1, <2>2 DEF CheckedInv
<1>12. RangesInv'
  BY <1>1, <1>9 DEF UInv, RangesInv
<1>13. ChunksInv'
  <2>1. ASSUME NEW i \in DOMAIN chunks'
        PROVE  /\ chunks'[i].span = ranges[i]
               /\ Inside(chunks'[i].transcript.segments, ranges[i][1], ranges[i][2])
               /\ Inside(chunks'[i].transcript.words, ranges[i][1], ranges[i][2])
    <3>1. CASE i = n + 1
      BY <1>6, <1>7, <1>8, <3>1 DEF range
    <3>2. CASE i # n + 1
      <4>1. i \in 1..n /\ i \in DOMAIN chunks
        BY <1>2, <1>8, <3>2 DEF n
      <4>2. chunks'[i] = chunks[i]
        BY <1>8, <4>1
      <4> QED BY <4>1, <4>2 DEF UInv, ChunksInv
    <3> QED BY <3>1, <3>2
  <2>2. Len(chunks') <= Len(ranges')
    BY <1>1, <1>2, <1>8
  <2>3. chunks' \in Seq(Chunk')
    BY <1>8, <1>9
  <2> QED BY <1>1, <2>1, <2>2, <2>3 DEF ChunksInv
<1>14. AnswerInv'
  BY <1>1 DEF AnswerInv, UInv
<1> QED BY <1>10, <1>11, <1>12, <1>13, <1>14 DEF UInv

LEMMA RespondStep ==
  ASSUME UInv, Respond
  PROVE  UInv'
<1>1. /\ pc = "transcribing" /\ pc' = "answered" /\ drained /\ Len(chunks) = Len(ranges)
      /\ Acceptable /\ target = HandedTarget
      /\ UNCHANGED <<task, fields, drained, target, pcm, ranges, chunks>>
  BY DEF Respond, UInv, FieldsInv, CheckedInv
<1>2. FieldsInv'
  BY <1>1 DEF UInv, FieldsInv
<1>3. CheckedInv'
  <2>1. Acceptable' /\ target' = HandedTarget'
    BY <1>1 DEF Acceptable, HandedTarget, Field, Model
  <2> QED BY <1>1, <2>1 DEF CheckedInv
<1>4. RangesInv'
  BY <1>1 DEF UInv, RangesInv, Model, Field
<1>5. ChunksInv'
  BY <1>1 DEF UInv, ChunksInv, Chunk, Asked, Options, Hint, Field
<1>6. AnswerInv'
  <2>1. /\ Field("response_format")' = Field("response_format") /\ Segments(chunks)' = Segments(chunks)
        /\ Words(chunks)' = Words(chunks) /\ Language(chunks, task, Reported)' = Language(chunks, task, Reported)
    <3>1. Field("response_format")' = Field("response_format") /\ Reported' = Reported
      BY <1>1 DEF Field, Reported, Hint, Model
    <3>2. chunks' = chunks /\ task' = task
      BY <1>1
    <3> QED BY <3>1, <3>2
  <2>2. CASE Field("response_format") = "verbose_json"
    <3>1. /\ answer'.status = "ok" /\ answer'.segments = Segments(chunks) /\ answer'.words = Words(chunks)
          /\ answer'.language = Language(chunks, task, Reported)
      BY <2>2 DEF Respond
    <3> QED BY <1>1, <2>1, <2>2, <3>1 DEF AnswerInv
  <2>3. CASE Field("response_format") # "verbose_json"
    <3>1. /\ answer'.status = "ok" /\ answer'.segments = <<>> /\ answer'.words = <<>>
          /\ answer'.language = None
      BY <2>3 DEF Respond, NoAnswer
    <3> QED BY <1>1, <2>1, <2>3, <3>1 DEF AnswerInv
  <2> QED BY <2>2, <2>3
<1> QED BY <1>2, <1>3, <1>4, <1>5, <1>6 DEF UInv

(* Nothing but pc changes when the client goes, and nothing at all in a    *)
(* stutter.                                                                *)
LEMMA QuietStep ==
  ASSUME UInv, HangUp \/ UNCHANGED vars
  PROVE  UInv'
<1>1. UNCHANGED <<task, fields, drained, target, pcm, ranges, chunks, answer>>
  BY DEF HangUp, vars
<1>2. pc' = pc \/ (pc' = "abandoned" /\ pc \in {"reading", "decoding", "transcribing"})
  BY DEF HangUp, vars
<1>3. FieldsInv'
  BY <1>1, <1>2 DEF UInv, FieldsInv
<1>4. CheckedInv'
  <2>1. Acceptable' = Acceptable /\ HandedTarget' = HandedTarget
    BY <1>1 DEF Acceptable, HandedTarget, Field, Model
  <2> QED BY <1>1, <1>2, <2>1 DEF UInv, CheckedInv
<1>5. RangesInv'
  BY <1>1 DEF UInv, RangesInv, Model, Field
<1>6. ChunksInv'
  BY <1>1 DEF UInv, ChunksInv, Chunk, Asked, Options, Hint, Field
<1>7. AnswerInv'
  <2>1. /\ Field("response_format")' = Field("response_format") /\ Segments(chunks)' = Segments(chunks)
        /\ Words(chunks)' = Words(chunks) /\ Language(chunks, task, Reported)' = Language(chunks, task, Reported)
    <3>1. Field("response_format")' = Field("response_format") /\ Reported' = Reported
      BY <1>1 DEF Field, Reported, Hint, Model
    <3>2. chunks' = chunks /\ task' = task
      BY <1>1
    <3> QED BY <3>1, <3>2
  <2> QED BY <1>1, <1>2, <2>1 DEF UInv, AnswerInv, NoAnswer, Failure
<1> QED BY <1>3, <1>4, <1>5, <1>6, <1>7 DEF UInv

LEMMA StepUInv == UInv /\ [Next]_vars => UInv'
<1> SUFFICES ASSUME UInv, [Next]_vars PROVE UInv'
  OBVIOUS
<1>1. ASSUME NEW name \in DOMAIN FieldValues, NEW value \in FieldValues[name], ReadField(name, value)
      PROVE  UInv'
  BY <1>1, BodyStep
<1>2. ASSUME NEW status \in {"too_large", "invalid_body"}, BodyFails(status)
      PROVE  UInv'
  BY <1>2, RefuseKeeps DEF BodyFails
<1>3. CASE EndBody
  BY <1>3, BodyStep
<1>4. CASE Reject
  BY <1>4, RefuseKeeps DEF Reject
<1>5. CASE Accept
  BY <1>5, AcceptStep
<1>6. CASE Decode
  BY <1>6, DecodeStep
<1>7. CASE DecodePanics
  BY <1>7, RefuseKeeps DEF DecodePanics
<1>8. CASE Transcribe
  BY <1>8, TranscribeStep
<1>9. ASSUME NEW status \in {"busy", "internal", "bad_request"}, TranscribeFails(status)
      PROVE  UInv'
  BY <1>9, RefuseKeeps DEF TranscribeFails
<1>10. CASE Respond
  BY <1>10, RespondStep
<1>11. CASE HangUp \/ UNCHANGED vars
  BY <1>11, QuietStep
<1> QED BY <1>1, <1>2, <1>3, <1>4, <1>5, <1>6, <1>7, <1>8, <1>9, <1>10, <1>11 DEF Next

(* What is known of an upload wherever it stands: its fields, what the     *)
(* checks found, its ranges, its chunks and its answer.                    *)
THEOREM UploadInvariance == Spec => []UInv
<1>1. Init => UInv
  BY InitUInv
<1>2. UInv /\ [Next]_vars => UInv'
  BY StepUInv
<1> QED BY <1>1, <1>2, PTL DEF Spec

----------------------------------------------------------------------------
(* What an upload promises.                                                *)

(* The client is told of no failure of the checks, the decode or the       *)
(* engine before its body is read (transcriptions.rs, the field loop).     *)
THEOREM UploadBodyReadFirst == Spec => []BodyReadFirst
<1>1. UInv => BodyReadFirst
  BY DEF UInv, AnswerInv, BodyReadFirst, NoAnswer, Failure
<1> QED BY <1>1, UploadInvariance, PTL

(* Once the checks let a translation through the engine does, whatever     *)
(* models there are and however the client spells its target               *)
(* (reject_impossible_translation and the engine's own check).             *)
THEOREM UploadNeverRefused == Spec => []EngineNeverRefuses
<1>1. UInv => EngineNeverRefuses
  <2> SUFFICES ASSUME UInv, pc \in {"decoding", "transcribing"}, task = "translate"
               PROVE  ~TranslationRefused(EngineResolve(Catalogue, Field("model")), target)
    BY DEF EngineNeverRefuses, EngineRefuses
  <2>1. EngineResolve(Catalogue, Field("model")) = Model /\ Model \in Info
    BY SameModel DEF Model
  <2>2. ~TranslationRefused(Model, Field("target_language")) /\ target = HandedTarget
    BY DEF UInv, CheckedInv, Acceptable
  <2>3. CASE Field("target_language") = None
    BY <2>1, <2>2, <2>3 DEF HandedTarget
  <2>4. CASE Field("target_language") # None
    <3>1. Field("target_language") \in Code
      BY <2>4, FieldType DEF UInv
    <3>2. target = CanonicalTarget(Model, Field("target_language"))
      BY <2>2, <2>4 DEF HandedTarget
    <3> QED BY <2>1, <2>2, <3>1, <3>2, CanonicalSpelling
  <2> QED BY <2>3, <2>4
<1> QED BY <1>1, UploadInvariance, PTL

(* A switch of the library says what the request does, or else the server. *)
SwitchSays(asked, field, default, supported) ==
  /\ asked # "default" => supported /\ asked = IF field = None THEN default ELSE Toggle(field)
  /\ asked = "default" => ~supported \/ (field = None /\ default = None)

LEMMA SwitchAsRequested ==
  ASSUME NEW field \in Code \cup {None}, NEW default \in {"on", "off", None}, NEW supported \in BOOLEAN,
         ToggleField(field) # "bad"
  PROVE  SwitchSays(Switch(Otherwise(ToggleField(field), default), supported), field, default, supported)
<1>1. Toggle(field) \in {"on", "off", "bad"} /\ None \notin {"on", "off", "bad", "default"}
  BY DefaultsAssumption DEF Toggle
<1>2. CASE field = None
  BY <1>1, <1>2 DEF ToggleField, Switch, Otherwise, SwitchSays
<1>3. CASE field # None
  BY <1>1, <1>3 DEF ToggleField, Switch, Otherwise, SwitchSays
<1> QED BY <1>2, <1>3

(* Every chunk of every upload is asked of the library as the request says *)
(* (TranscribeOptions of the handler, RunOptions of the engine).           *)
THEOREM UploadAskedAsRequested == Spec => []AskedAsRequested
<1>1. UInv => AskedAsRequested
  <2> SUFFICES ASSUME UInv, NEW i \in DOMAIN chunks
               PROVE  LET asked == chunks[i].asked
                          model == EngineResolve(Catalogue, Field("model"))
                          sent == Field("target_language")
                          set == [pnc |-> DefaultPnc, itn |-> DefaultItn]
                      IN  /\ asked.task = task
                          /\ asked.target = None <=> task = "transcribe" \/ sent = None
                          /\ asked.target # None =>
                               /\ LanguageEq(asked.target, sent)
                               /\ IF model.targets = <<>> THEN ~asked.target.spaced
                                  ELSE \E j \in DOMAIN model.targets : model.targets[j] = asked.target
                          /\ \A name \in {"pnc", "itn"} :
                               /\ asked[name] # "default" =>
                                    /\ name \in model.switches
                                    /\ IF Field(name) = None THEN asked[name] = set[name]
                                       ELSE asked[name] = Toggle(Field(name))
                               /\ asked[name] = "default" =>
                                    name \notin model.switches \/ (Field(name) = None /\ set[name] = None)
    BY DEF AskedAsRequested
  <2> DEFINE model == EngineResolve(Catalogue, Field("model"))
             asked == chunks[i].asked
             sent == Field("target_language")
  <2>1. asked = Asked
    <3>1. chunks[i] \in Chunk
      BY DEF UInv, ChunksInv
    <3> QED BY <3>1 DEF Chunk
  <2>2. model = Model /\ model \in Info
    BY SameModel DEF Model
  <2>3. Acceptable /\ target = HandedTarget
    BY DEF UInv, CheckedInv
  <2>4. task \in {"transcribe", "translate"} /\ sent \in Code \cup {None}
        /\ Field("pnc") \in Code \cup {None} /\ Field("itn") \in Code \cup {None}
    BY FieldType DEF UInv, FieldsInv
  <2> HIDE DEF model, sent
  <2>5. /\ asked.task = task
        /\ asked.target = IF task = "translate" THEN target ELSE None
        /\ asked.pnc = Switch(Otherwise(ToggleField(Field("pnc")), DefaultPnc), "pnc" \in model.switches)
        /\ asked.itn = Switch(Otherwise(ToggleField(Field("itn")), DefaultItn), "itn" \in model.switches)
    BY <2>1 DEF Asked, LibraryOptions, Options, model
  <2> HIDE DEF asked
  <2>6. /\ asked.target = None <=> task = "transcribe" \/ sent = None
        /\ asked.target # None =>
             /\ LanguageEq(asked.target, sent)
             /\ IF model.targets = <<>> THEN ~asked.target.spaced
                ELSE \E j \in DOMAIN model.targets : model.targets[j] = asked.target
    <3>1. CASE task = "translate" /\ sent # None
      <4>1. target = CanonicalTarget(model, sent) /\ ~TranslationRefused(model, sent)
        BY <2>2, <2>3, <3>1 DEF HandedTarget, Acceptable, sent
      <4>2. /\ target \in Code /\ LanguageEq(target, sent)
            /\ IF model.targets = <<>> THEN ~target.spaced
               ELSE \E j \in DOMAIN model.targets : model.targets[j] = target
        BY <2>2, <2>4, <3>1, <4>1, CanonicalSpelling
      <4>3. asked.target = target /\ target # None
        BY <2>5, <3>1, <4>2, CodeAssumption
      <4> QED BY <3>1, <4>2, <4>3
    <3>2. CASE ~(task = "translate" /\ sent # None)
      <4>1. target = None
        BY <2>3, <3>2 DEF HandedTarget, sent
      <4> QED BY <2>4, <2>5, <3>2, <4>1
    <3> QED BY <3>1, <3>2
  <2>7. ToggleField(Field("pnc")) # "bad" /\ ToggleField(Field("itn")) # "bad"
    BY <2>3 DEF Acceptable
  <2>8. DefaultPnc \in {"on", "off", None} /\ DefaultItn \in {"on", "off", None}
    BY DefaultsAssumption
  <2>9. /\ asked.pnc # "default" =>
             "pnc" \in model.switches /\ asked.pnc = IF Field("pnc") = None THEN DefaultPnc ELSE Toggle(Field("pnc"))
        /\ asked.pnc = "default" => "pnc" \notin model.switches \/ (Field("pnc") = None /\ DefaultPnc = None)
    <3>1. ("pnc" \in model.switches) \in BOOLEAN
      OBVIOUS
    <3>2. SwitchSays(Switch(Otherwise(ToggleField(Field("pnc")), DefaultPnc), "pnc" \in model.switches),
                     Field("pnc"), DefaultPnc, "pnc" \in model.switches)
      BY <2>4, <2>7, <2>8, <3>1, SwitchAsRequested
    <3> QED BY <2>5, <3>2 DEF SwitchSays
  <2>10. /\ asked.itn # "default" =>
              "itn" \in model.switches /\ asked.itn = IF Field("itn") = None THEN DefaultItn ELSE Toggle(Field("itn"))
         /\ asked.itn = "default" => "itn" \notin model.switches \/ (Field("itn") = None /\ DefaultItn = None)
    <3>1. ("itn" \in model.switches) \in BOOLEAN
      OBVIOUS
    <3>2. SwitchSays(Switch(Otherwise(ToggleField(Field("itn")), DefaultItn), "itn" \in model.switches),
                     Field("itn"), DefaultItn, "itn" \in model.switches)
      BY <2>4, <2>7, <2>8, <3>1, SwitchAsRequested
    <3> QED BY <2>5, <3>2 DEF SwitchSays
  <2>11. ASSUME NEW name \in {"pnc", "itn"}
         PROVE  LET set == [pnc |-> DefaultPnc, itn |-> DefaultItn]
                IN  /\ asked[name] # "default" =>
                         /\ name \in model.switches
                         /\ IF Field(name) = None THEN asked[name] = set[name]
                            ELSE asked[name] = Toggle(Field(name))
                    /\ asked[name] = "default" =>
                         name \notin model.switches \/ (Field(name) = None /\ set[name] = None)
    <3>1. CASE name = "pnc"
      BY <2>9, <3>1
    <3>2. CASE name = "itn"
      BY <2>10, <3>2
    <3> QED BY <3>1, <3>2
  <2> QED BY <2>5, <2>6, <2>11 DEF asked, model, sent
<1> QED BY <1>1, UploadInvariance, PTL

(* No chunk reaches the limit of its model, for any catalogue whose limits *)
(* are longer than one frame (chunk_max_sec_for, window_inside).           *)
THEOREM UploadInsideModelLimit == Spec => []InsideModelLimit
<1>1. UInv => InsideModelLimit
  <2> SUFFICES ASSUME UInv, NEW i \in DOMAIN chunks
               PROVE  LET length == chunks[i].span[2] - chunks[i].span[1]
                          limit == EngineResolve(Catalogue, Field("model")).limit
                      IN  /\ length <= Configured \/ length <= Frame
                          /\ limit > 0 => length < limit
    BY DEF InsideModelLimit
  <2> DEFINE max == ChunkMax(Model)
             limit == Model.limit
             length == chunks[i].span[2] - chunks[i].span[1]
  <2>1. /\ EngineResolve(Catalogue, Field("model")) = Model /\ Model \in Info
        /\ limit = 0 \/ limit > Frame
    BY SameModel DEF Model
  <2>2. limit \in Nat
    BY <2>1 DEF Info
  <2>3. max \in Nat /\ max <= Configured /\ (limit > 0 => max < limit)
    BY <2>1, ChunkMaxBounds
  <2>4. Window(max) = Frame \/ Window(max) = max
    BY <2>3, WindowType
  <2>5. chunks[i].span = ranges[i] /\ i \in DOMAIN ranges /\ ranges[i] \in Nat \X Nat
    BY DEF UInv, ChunksInv, RangesInv
  <2>6. length <= Window(max) /\ length \in Int
    BY <2>5 DEF UInv, RangesInv
  <2> HIDE DEF max, limit, length
  <2>7. /\ length <= Configured \/ length <= Frame
        /\ limit > 0 => length < limit
    BY <2>1, <2>2, <2>3, <2>4, <2>6, FrameAssumption, ChunkAssumption
  <2> QED BY <2>1, <2>7 DEF limit, length
<1> QED BY <1>1, UploadInvariance, PTL

(* An answer leaves no part of any recording out (chunk_ranges and the     *)
(* handler's loop over it).                                                *)
THEOREM UploadWholeRecording == Spec => []WholeRecording
<1>1. UInv => WholeRecording
  <2> SUFFICES ASSUME UInv, answer.status = "ok"
               PROVE  /\ \A i \in DOMAIN chunks :
                           chunks[i].span[1] = IF i = 1 THEN 0 ELSE chunks[i - 1].span[2]
                      /\ Len(pcm) = IF chunks = <<>> THEN 0 ELSE chunks[Len(chunks)].span[2]
    BY DEF WholeRecording
  <2>1. Len(chunks) = Len(ranges)
    BY DEF UInv, AnswerInv, NoAnswer, Failure
  <2>2. chunks \in Seq(Chunk) /\ ranges \in Seq(Nat \X Nat)
    BY DEF UInv, ChunksInv, RangesInv
  <2>3. /\ Len(chunks) \in Nat /\ DOMAIN chunks = 1..Len(chunks) /\ DOMAIN ranges = 1..Len(chunks)
        /\ chunks = <<>> <=> Len(chunks) = 0
        /\ ranges = <<>> <=> Len(chunks) = 0
    BY <2>1, <2>2
  <2>4. \A i \in 1..Len(chunks) : chunks[i].span = ranges[i]
    BY <2>3 DEF UInv, ChunksInv
  <2>5. ASSUME NEW i \in 1..Len(chunks)
        PROVE  chunks[i].span[1] = IF i = 1 THEN 0 ELSE chunks[i - 1].span[2]
    <3>1. ranges[i][1] = IF i = 1 THEN 0 ELSE ranges[i - 1][2]
      BY <2>3 DEF UInv, RangesInv
    <3>2. i # 1 => i - 1 \in 1..Len(chunks)
      BY <2>3
    <3> QED BY <2>4, <3>1, <3>2
  <2>6. Len(pcm) = IF chunks = <<>> THEN 0 ELSE chunks[Len(chunks)].span[2]
    <3>1. Len(pcm) = IF ranges = <<>> THEN 0 ELSE ranges[Len(ranges)][2]
      BY DEF UInv, RangesInv
    <3>2. Len(chunks) # 0 => Len(chunks) \in 1..Len(chunks)
      BY <2>3
    <3> QED BY <2>1, <2>3, <2>4, <3>1, <3>2
  <2> QED BY <2>3, <2>5, <2>6
<1> QED BY <1>1, UploadInvariance, PTL

(* A translation is labelled with what the model was asked for or all it   *)
(* can produce, whatever language it detects (verbose_json).               *)
THEOREM UploadLanguageTold == Spec => []LanguageTold
<1>1. UInv => LanguageTold
  <2> SUFFICES ASSUME UInv, answer.language # None, task = "translate"
               PROVE  \/ answer.language = target
                      \/ target = None /\ EngineResolve(Catalogue, Field("model")).targets = <<answer.language>>
                      \/ target = None /\ answer.language = Unknown
    BY DEF LanguageTold
  <2>1. answer.language = Language(chunks, task, Reported)
    BY DEF UInv, AnswerInv, NoAnswer, Failure
  <2>2. answer.language = IF Reported # None THEN Reported ELSE Unknown
    BY <2>1, Zenon DEF Language
  <2>3. Reported = IF target # None THEN target ELSE SingleTarget(Model)
    BY DEF Reported
  <2>4. EngineResolve(Catalogue, Field("model")) = Model /\ Model.targets \in Seq(Code)
    BY SameModel DEF Model, Info
  <2>5. SingleTarget(Model) # None => Model.targets = <<SingleTarget(Model)>>
    <3>1. Len(Model.targets) = 1 => Model.targets = <<Model.targets[1]>>
      BY <2>4
    <3> QED BY <3>1 DEF SingleTarget
  <2> QED BY <2>2, <2>3, <2>4, <2>5
<1> QED BY <1>1, UploadInvariance, PTL

----------------------------------------------------------------------------
(* The timeline.                                                           *)

(* A quotient does not fall when the dividend rises. *)
LEMMA QuotientRises ==
  ASSUME NEW a \in Nat, NEW b \in Nat, NEW d \in Nat \ {0}, a <= b
  PROVE  a \div d \in Nat /\ a \div d <= b \div d
<1> DEFINE q == a \div d
           r == b \div d
<1>1. q \in Nat /\ r \in Nat /\ d * q <= a /\ b < d * r + d
  OBVIOUS
<1> HIDE DEF q, r
<1>2. CASE q <= r
  BY <1>1, <1>2 DEF q, r
<1>3. CASE q >= r + 1
  <2>1. d * q >= d * (r + 1) /\ d * (r + 1) = d * r + d
    BY <1>1, <1>3
  <2>2. d * q \in Nat /\ d * r \in Nat
    BY <1>1
  <2> QED BY <1>1, <2>1, <2>2
<1> QED BY <1>1, <1>2, <1>3

LEMMA MillisecondsRise ==
  ASSUME NEW m \in Nat, NEW n \in Nat, m <= n
  PROVE  Milliseconds(m) \in Nat /\ Milliseconds(n) \in Nat /\ Milliseconds(m) <= Milliseconds(n)
<1> DEFINE a == 2 * m + Millisecond
           b == 2 * n + Millisecond
           d == 2 * Millisecond
<1>1. a \in Nat /\ b \in Nat /\ d \in Nat \ {0} /\ a <= b /\ b <= b
  BY MillisecondAssumption
<1>2. Milliseconds(m) = a \div d /\ Milliseconds(n) = b \div d
  BY DEF Milliseconds
<1> HIDE DEF a, b, d
<1> QED BY <1>1, <1>2, QuotientRises

(* A sequence, from its elements. *)
LEMMA SequenceOf ==
  ASSUME NEW S, NEW n \in Nat, NEW s, s = [i \in 1..n |-> s[i]], \A i \in 1..n : s[i] \in S
  PROVE  s \in Seq(S) /\ Len(s) = n /\ DOMAIN s = 1..n
OBVIOUS

(* A row that has ended when another begins. *)
Before == {pair \in Row \X Row : pair[1].end <= pair[2].start}

LEMMA InsideOrder ==
  ASSUME NEW rows \in Seq(Row), NEW from, NEW to
  PROVE  Inside(rows, from, to) <=>
           /\ \A i \in DOMAIN rows :
                from <= rows[i].start /\ rows[i].start <= rows[i].end /\ rows[i].end <= to
           /\ InOrder(rows, Before)
<1>1. \A i \in DOMAIN rows : rows[i] \in Row
  OBVIOUS
<1>2. \A i, j \in DOMAIN rows : <<rows[i], rows[j]>> \in Before <=> rows[i].end <= rows[j].start
  BY <1>1 DEF Before
<1> QED BY <1>2 DEF Inside, InOrder

(* The rows with text, in the same order. *)
LEMMA HeardInside ==
  ASSUME NEW rows \in Seq(Row), NEW from \in Nat, NEW to \in Nat, Inside(rows, from, to)
  PROVE  /\ Heard(rows) \in Seq(Row) /\ Inside(Heard(rows), from, to)
         /\ (\E i \in DOMAIN rows : rows[i].text) => Heard(rows) # <<>>
<1> DEFINE parts == [i \in DOMAIN rows |-> IF rows[i].text THEN <<rows[i]>> ELSE <<>>]
           n == Len(rows)
<1>1. n \in Nat /\ DOMAIN rows = 1..n /\ \A i \in 1..n : rows[i] \in Row
  OBVIOUS
<1>2. ASSUME NEW i \in 1..n
      PROVE  /\ parts[i] \in Seq(Row)
             /\ \A k \in DOMAIN parts[i] : k = 1 /\ parts[i][k] = rows[i]
             /\ rows[i].text => 1 \in DOMAIN parts[i]
  <2>1. parts[i] = IF rows[i].text THEN <<rows[i]>> ELSE <<>>
    BY <1>1
  <2>2. CASE rows[i].text
    BY <1>1, <2>1, <2>2
  <2>3. CASE ~rows[i].text
    BY <1>1, <2>1, <2>3
  <2> QED BY <2>2, <2>3
<1>3. parts = [i \in 1..n |-> parts[i]]
  BY <1>1
<1> HIDE DEF parts, n
<1>4. parts \in Seq(Seq(Row)) /\ Len(parts) = n
  BY <1>1, <1>2, <1>3, SequenceOf
<1>5. InOrder(rows, Before)
  BY InsideOrder
<1>6. PartsInOrder(parts, n, Before)
  <2>1. \A i \in 1..n : InOrder(parts[i], Before)
    BY <1>2 DEF InOrder
  <2>2. ASSUME NEW i \in 1..n, NEW j \in 1..n, i < j, NEW k \in DOMAIN parts[i], NEW l \in DOMAIN parts[j]
        PROVE  <<parts[i][k], parts[j][l]>> \in Before
    <3>1. parts[i][k] = rows[i] /\ parts[j][l] = rows[j]
      BY <1>2
    <3> QED BY <1>1, <1>5, <2>2, <3>1 DEF InOrder
  <2> QED BY <2>1, <2>2 DEF PartsInOrder
<1>7. Heard(rows) = FlattenSeq(parts)
  BY DEF Heard, parts
<1> DEFINE flat == FlattenSeq(parts)
<1>8. flat \in Seq(Row) /\ Flattened(flat, parts, n, Before)
  BY <1>4, <1>6, FlattenOrdered
<1> HIDE DEF flat
<1>9. ASSUME NEW p \in DOMAIN flat
      PROVE  from <= flat[p].start /\ flat[p].start <= flat[p].end /\ flat[p].end <= to
  <2>1. PICK i \in 1..n : \E k \in DOMAIN parts[i] : flat[p] = parts[i][k]
    BY <1>8 DEF Flattened
  <2>2. flat[p] = rows[i]
    BY <1>2, <2>1
  <2> QED BY <1>1, <2>2 DEF Inside
<1>10. Inside(flat, from, to)
  BY <1>8, <1>9, InsideOrder DEF Flattened
<1>11. (\E i \in DOMAIN rows : rows[i].text) => flat # <<>>
  <2>1. ASSUME NEW i \in 1..n, rows[i].text
        PROVE  flat # <<>>
    <3>1. 1 \in DOMAIN parts[i]
      BY <1>2, <2>1
    <3>2. \E p \in DOMAIN flat : flat[p] = parts[i][1]
      BY <1>8, <3>1 DEF Flattened
    <3> QED BY <3>2
  <2> QED BY <1>1, <2>1
<1> QED BY <1>7, <1>8, <1>10, <1>11 DEF flat

(* The rows of one chunk lie inside it, and there are some if it says      *)
(* something.                                                              *)
LEMMA SegmentRowsInside ==
  ASSUME NEW chunk, NEW from \in Nat, NEW to \in Nat, from <= to,
         chunk.span = <<from, to>>, chunk.transcript \in Transcript,
         Inside(chunk.transcript.segments, from, to)
  PROVE  /\ SegmentRows(chunk) \in Seq(Row) /\ Inside(SegmentRows(chunk), from, to)
         /\ Spoken(chunk.transcript) => SegmentRows(chunk) # <<>>
<1> DEFINE transcript == chunk.transcript
           segments == transcript.segments
           whole == <<[start |-> from, end |-> to, text |-> transcript.text]>>
<1>1. segments \in Seq(Row) /\ transcript.text \in BOOLEAN
  BY DEF Transcript
<1>2. CASE segments = <<>>
  <2>1. SegmentRows(chunk) = Heard(whole)
    BY <1>2 DEF SegmentRows
  <2>2. [start |-> from, end |-> to, text |-> transcript.text] \in Row
    BY <1>1 DEF Row
  <2>3. whole \in Seq(Row) /\ DOMAIN whole = {1} /\ whole[1].start = from /\ whole[1].end = to
        /\ whole[1].text = transcript.text
    BY <2>2
  <2> HIDE DEF whole
  <2>4. Inside(whole, from, to)
    BY <2>3 DEF Inside
  <2>5. Heard(whole) \in Seq(Row) /\ Inside(Heard(whole), from, to)
        /\ ((\E i \in DOMAIN whole : whole[i].text) => Heard(whole) # <<>>)
    BY <2>3, <2>4, HeardInside
  <2> QED BY <2>1, <2>3, <2>5 DEF Spoken
<1>3. CASE segments # <<>>
  <2>1. SegmentRows(chunk) = Heard(segments)
    BY <1>3 DEF SegmentRows
  <2>2. Heard(segments) \in Seq(Row) /\ Inside(Heard(segments), from, to)
        /\ ((\E i \in DOMAIN segments : segments[i].text) => Heard(segments) # <<>>)
    BY <1>1, HeardInside
  <2> QED BY <1>3, <2>1, <2>2 DEF Spoken
<1> QED BY <1>2, <1>3

(* Of ranges that tile, one ends before every later one begins. *)
LEMMA TilesOrdered ==
  ASSUME NEW n \in Nat, NEW w \in Nat, NEW rs, TilesFrom(rs, 0, n, w)
  PROVE  /\ \A i \in DOMAIN rs :
              rs[i][1] \in Nat /\ rs[i][2] \in Nat /\ rs[i][1] < rs[i][2] /\ rs[i][2] <= n
         /\ \A i, j \in DOMAIN rs : i < j => rs[i][2] <= rs[j][1]
<1> DEFINE m == Len(rs)
<1>1. m \in Nat /\ DOMAIN rs = 1..m /\ (rs = <<>> <=> m = 0)
  BY DEF TilesFrom
<1>2. \A i \in 1..m : rs[i][1] \in Nat /\ rs[i][2] \in Nat /\ rs[i][1] < rs[i][2]
  <2>1. \A i \in 1..m : rs[i] \in Nat \X Nat
    BY <1>1 DEF TilesFrom
  <2> QED BY <1>1, <2>1 DEF TilesFrom
<1>3. \A i \in 1..m : i + 1 \in 1..m => rs[i + 1][1] = rs[i][2]
  <2>1. ASSUME NEW i \in 1..m, i + 1 \in 1..m
        PROVE  rs[i + 1][1] = rs[i][2]
    <3>1. i + 1 # 1 /\ (i + 1) - 1 = i
      BY <1>1
    <3> QED BY <1>1, <2>1, <3>1 DEF TilesFrom
  <2> QED BY <2>1
<1>4. m # 0 => rs[m][2] = n
  BY <1>1 DEF TilesFrom
<1> HIDE DEF m
<1> DEFINE T == {d \in Nat : \A i \in 1..m : i + d \in 1..m => rs[i][2] <= rs[i + d][2]}
<1>5. \A d \in Nat : d \in T
  <2>1. 0 \in T
    <3>1. ASSUME NEW i \in 1..m
          PROVE  rs[i][2] <= rs[i + 0][2]
      <4>1. i + 0 = i /\ rs[i][2] \in Nat
        BY <1>1, <1>2
      <4> QED BY <4>1
    <3> QED BY <3>1
  <2>2. ASSUME NEW d \in Nat, d \in T
        PROVE  d + 1 \in T
    <3>1. ASSUME NEW i \in 1..m, i + (d + 1) \in 1..m
          PROVE  rs[i][2] <= rs[i + (d + 1)][2]
      <4>1. i + d \in 1..m /\ (i + d) + 1 = i + (d + 1)
        BY <1>1, <3>1
      <4>2. rs[i][2] <= rs[i + d][2]
        BY <2>2, <4>1
      <4>3. rs[i + (d + 1)][1] = rs[i + d][2]
        BY <1>3, <3>1, <4>1
      <4>4. rs[i + (d + 1)][1] < rs[i + (d + 1)][2] /\ rs[i + (d + 1)][1] \in Nat
            /\ rs[i + (d + 1)][2] \in Nat /\ rs[i][2] \in Nat
        BY <1>2, <3>1
      <4> QED BY <4>2, <4>3, <4>4
    <3> QED BY <3>1
  <2> HIDE DEF T
  <2> QED BY <2>1, <2>2, Induction
<1>6. ASSUME NEW i \in 1..m, NEW j \in 1..m, i <= j
      PROVE  rs[i][2] <= rs[j][2]
  <2>1. j - i \in Nat /\ i + (j - i) = j
    BY <1>1, <1>6
  <2>2. j - i \in T
    BY <1>5, <2>1
  <2> QED BY <2>1, <2>2
<1>7. ASSUME NEW i \in 1..m
      PROVE  rs[i][2] <= n
  <2>1. m \in 1..m /\ i <= m
    BY <1>1
  <2> QED BY <1>1, <1>4, <1>6, <2>1
<1>8. ASSUME NEW i \in 1..m, NEW j \in 1..m, i < j
      PROVE  rs[i][2] <= rs[j][1]
  <2>1. j - 1 \in 1..m /\ (j - 1) + 1 = j /\ i <= j - 1
    BY <1>1, <1>8
  <2>2. rs[j][1] = rs[j - 1][2]
    BY <1>3, <2>1
  <2> QED BY <1>6, <2>1, <2>2
<1> QED BY <1>1, <1>2, <1>7, <1>8

(* Rows of ranges that tile a recording, flattened, run on from one to the *)
(* next.                                                                   *)
LEMMA RowsRunOn ==
  ASSUME NEW n \in Nat, NEW w \in Nat, NEW rs, TilesFrom(rs, 0, n, w),
         NEW parts \in Seq(Seq(Row)), Len(parts) <= Len(rs),
         \A i \in DOMAIN parts : Inside(parts[i], rs[i][1], rs[i][2])
  PROVE  /\ FlattenSeq(parts) \in Seq(Row) /\ Inside(FlattenSeq(parts), 0, n)
         /\ \A i \in DOMAIN parts : \A k \in DOMAIN parts[i] :
              \E p \in DOMAIN FlattenSeq(parts) : FlattenSeq(parts)[p] = parts[i][k]
<1> DEFINE flat == FlattenSeq(parts)
           m == Len(parts)
<1>1. /\ m \in Nat /\ DOMAIN parts = 1..m
      /\ \A i \in 1..m : parts[i] \in Seq(Row) /\ \A k \in DOMAIN parts[i] : parts[i][k] \in Row
  OBVIOUS
<1>2. \A i \in 1..m : i \in DOMAIN rs
  <2>1. Len(rs) \in Nat /\ DOMAIN rs = 1..Len(rs) /\ m <= Len(rs)
    BY DEF TilesFrom
  <2> QED BY <1>1, <2>1
<1> HIDE DEF m
<1>3. ASSUME NEW i \in 1..m, NEW k \in DOMAIN parts[i]
      PROVE  /\ parts[i][k] \in Row
             /\ rs[i][1] <= parts[i][k].start /\ parts[i][k].start <= parts[i][k].end
             /\ parts[i][k].end <= rs[i][2]
             /\ rs[i][1] \in Nat /\ rs[i][2] \in Nat /\ rs[i][2] <= n
             /\ parts[i][k].start \in Nat /\ parts[i][k].end \in Nat
  <2>1. Inside(parts[i], rs[i][1], rs[i][2])
    BY <1>1
  <2>2. parts[i][k] \in Row
    BY <1>1
  <2>3. rs[i][1] \in Nat /\ rs[i][2] \in Nat /\ rs[i][2] <= n
    BY <1>2, TilesOrdered
  <2> QED BY <2>1, <2>2, <2>3 DEF Inside, Row
<1>4. PartsInOrder(parts, m, Before)
  <2>1. ASSUME NEW i \in 1..m
        PROVE  InOrder(parts[i], Before)
    <3>1. parts[i] \in Seq(Row) /\ Inside(parts[i], rs[i][1], rs[i][2])
      BY <1>1
    <3> QED BY <3>1, InsideOrder
  <2>2. ASSUME NEW i \in 1..m, NEW j \in 1..m, i < j, NEW k \in DOMAIN parts[i], NEW l \in DOMAIN parts[j]
        PROVE  <<parts[i][k], parts[j][l]>> \in Before
    <3>1. rs[i][2] <= rs[j][1]
      BY <1>2, <2>2, TilesOrdered
    <3>2. /\ parts[i][k] \in Row /\ parts[i][k].end <= rs[i][2] /\ rs[i][2] \in Nat
          /\ parts[i][k].end \in Nat
      BY <1>3
    <3>3. /\ parts[j][l] \in Row /\ rs[j][1] <= parts[j][l].start /\ rs[j][1] \in Nat
          /\ parts[j][l].start \in Nat
      BY <1>3
    <3>4. parts[i][k].end <= parts[j][l].start
      <4>1. \A a, b, c, d \in Nat : a <= b /\ b <= c /\ c <= d => a <= d
        OBVIOUS
      <4> QED BY <3>1, <3>2, <3>3, <4>1, Zenon
    <3> QED BY <3>2, <3>3, <3>4 DEF Before
  <2> QED BY <2>1, <2>2 DEF PartsInOrder
<1>5. flat \in Seq(Row) /\ Flattened(flat, parts, m, Before)
  BY <1>4, FlattenOrdered DEF m
<1> HIDE DEF flat
<1>6. ASSUME NEW p \in DOMAIN flat
      PROVE  0 <= flat[p].start /\ flat[p].start <= flat[p].end /\ flat[p].end <= n
  <2>1. PICK i \in 1..m : \E k \in DOMAIN parts[i] : flat[p] = parts[i][k]
    BY <1>5 DEF Flattened
  <2>2. PICK k \in DOMAIN parts[i] : flat[p] = parts[i][k]
    BY <2>1
  <2>3. /\ parts[i][k].start <= parts[i][k].end /\ parts[i][k].end <= rs[i][2]
        /\ rs[i][2] \in Nat /\ rs[i][2] <= n
        /\ parts[i][k].start \in Nat /\ parts[i][k].end \in Nat
    BY <1>3
  <2> QED BY <2>2, <2>3, SMTT(30)
<1>7. Inside(flat, 0, n)
  BY <1>5, <1>6, InsideOrder DEF Flattened
<1> QED BY <1>1, <1>5, <1>7 DEF Flattened, flat

(* Rounding keeps rows in order, and inside. *)
LEMMA RoundedInside ==
  ASSUME NEW rows \in Seq(Row), NEW from \in Nat, NEW to \in Nat, Inside(rows, from, to),
         NEW rounded, rounded = [i \in DOMAIN rows |-> Rounded(rows[i])]
  PROVE  Inside(rounded, Milliseconds(from), Milliseconds(to)) /\ Inside(rounded, 0, Milliseconds(to))
<1>1. ASSUME NEW i \in DOMAIN rows
      PROVE  /\ rows[i].start \in Nat /\ rows[i].end \in Nat
             /\ rounded[i].start = Milliseconds(rows[i].start)
             /\ rounded[i].end = Milliseconds(rows[i].end)
  <2>1. rows[i] \in Row
    OBVIOUS
  <2> QED BY <2>1 DEF Rounded, Row
<1>2. ASSUME NEW i \in DOMAIN rounded, NEW j \in DOMAIN rounded
      PROVE  /\ Milliseconds(from) <= rounded[i].start /\ rounded[i].start <= rounded[i].end
             /\ rounded[i].end <= Milliseconds(to) /\ rounded[i].start \in Nat
             /\ i < j => rounded[i].end <= rounded[j].start
  <2>1. i \in DOMAIN rows /\ j \in DOMAIN rows
    OBVIOUS
  <2>2. /\ from <= rows[i].start /\ rows[i].start <= rows[i].end /\ rows[i].end <= to
        /\ i < j => rows[i].end <= rows[j].start
    BY <2>1 DEF Inside
  <2>3. Milliseconds(from) <= Milliseconds(rows[i].start)
    BY <1>1, <2>1, <2>2, MillisecondsRise
  <2>4. Milliseconds(rows[i].start) <= Milliseconds(rows[i].end) /\ Milliseconds(rows[i].start) \in Nat
    BY <1>1, <2>1, <2>2, MillisecondsRise
  <2>5. Milliseconds(rows[i].end) <= Milliseconds(to)
    BY <1>1, <2>1, <2>2, MillisecondsRise
  <2>6. i < j => Milliseconds(rows[i].end) <= Milliseconds(rows[j].start)
    BY <1>1, <2>1, <2>2, MillisecondsRise
  <2> QED BY <1>1, <2>1, <2>3, <2>4, <2>5, <2>6
<1> QED BY <1>2 DEF Inside

(* The segments and the words of all chunks, before they are rounded. *)
LEMMA AllRows ==
  ASSUME UInv
  PROVE  LET spoken == [i \in DOMAIN chunks |-> SegmentRows(chunks[i])]
             worded == [i \in DOMAIN chunks |-> Heard(chunks[i].transcript.words)]
         IN  /\ FlattenSeq(spoken) \in Seq(Row) /\ Inside(FlattenSeq(spoken), 0, Len(pcm))
             /\ FlattenSeq(worded) \in Seq(Row) /\ Inside(FlattenSeq(worded), 0, Len(pcm))
             /\ \A i \in DOMAIN chunks : Spoken(chunks[i].transcript) =>
                  \E p \in DOMAIN FlattenSeq(spoken) :
                    /\ chunks[i].span[1] <= FlattenSeq(spoken)[p].start
                    /\ FlattenSeq(spoken)[p].end <= chunks[i].span[2]
                    /\ chunks[i].span[1] \in Nat /\ chunks[i].span[2] \in Nat
<1> DEFINE spoken == [i \in DOMAIN chunks |-> SegmentRows(chunks[i])]
           worded == [i \in DOMAIN chunks |-> Heard(chunks[i].transcript.words)]
           m == Len(chunks)
           w == Window(ChunkMax(Model))
<1>1. /\ m \in Nat /\ DOMAIN chunks = 1..m /\ m <= Len(ranges)
      /\ \A i \in 1..m : chunks[i] \in Chunk /\ chunks[i].span = ranges[i]
      /\ \A i \in 1..m : Inside(chunks[i].transcript.segments, ranges[i][1], ranges[i][2])
      /\ \A i \in 1..m : Inside(chunks[i].transcript.words, ranges[i][1], ranges[i][2])
  BY DEF UInv, ChunksInv
<1>2. Len(pcm) \in Nat /\ w \in Nat /\ TilesFrom(ranges, 0, Len(pcm), w)
  <2>1. ChunkMax(Model) \in Nat
    BY SameModel, ChunkMaxBounds DEF Model
  <2>2. w \in Nat
    BY <2>1, WindowType
  <2>3. Len(pcm) \in Nat
    BY DEF UInv, RangesInv
  <2> QED BY <2>2, <2>3 DEF UInv, RangesInv, TilesFrom
<1>3. DOMAIN spoken = 1..m /\ DOMAIN worded = 1..m
  BY <1>1
<1>4. ASSUME NEW i \in 1..m
      PROVE  spoken[i] = SegmentRows(chunks[i]) /\ worded[i] = Heard(chunks[i].transcript.words)
  BY <1>1
<1>5. spoken = [i \in 1..m |-> spoken[i]] /\ worded = [i \in 1..m |-> worded[i]]
  BY <1>1
<1> HIDE DEF spoken, worded, m, w
<1>6. ASSUME NEW i \in 1..m
      PROVE  /\ ranges[i][1] \in Nat /\ ranges[i][2] \in Nat /\ ranges[i][1] <= ranges[i][2]
             /\ chunks[i].span = <<ranges[i][1], ranges[i][2]>>
             /\ chunks[i].transcript \in Transcript
  <2>1. i \in DOMAIN ranges /\ ranges[i] \in Nat \X Nat
    BY <1>1 DEF UInv, RangesInv
  <2>2. ranges[i][1] < ranges[i][2] /\ ranges[i][1] \in Nat /\ ranges[i][2] \in Nat
    BY <1>2, <2>1, TilesOrdered
  <2> QED BY <1>1, <2>1, <2>2 DEF Chunk
<1>7. ASSUME NEW i \in 1..m
      PROVE  /\ spoken[i] \in Seq(Row) /\ Inside(spoken[i], ranges[i][1], ranges[i][2])
             /\ Spoken(chunks[i].transcript) => spoken[i] # <<>>
             /\ worded[i] \in Seq(Row) /\ Inside(worded[i], ranges[i][1], ranges[i][2])
  <2> DEFINE chunk == chunks[i]
             from == ranges[i][1]
             to == ranges[i][2]
  <2>1. /\ from \in Nat /\ to \in Nat /\ from <= to /\ chunk.span = <<from, to>>
        /\ chunk.transcript \in Transcript /\ chunk.transcript.words \in Seq(Row)
        /\ Inside(chunk.transcript.segments, from, to) /\ Inside(chunk.transcript.words, from, to)
    BY <1>1, <1>6 DEF Transcript
  <2> HIDE DEF chunk, from, to
  <2>2. /\ SegmentRows(chunk) \in Seq(Row) /\ Inside(SegmentRows(chunk), from, to)
        /\ Spoken(chunk.transcript) => SegmentRows(chunk) # <<>>
    BY <2>1, SegmentRowsInside
  <2>3. Heard(chunk.transcript.words) \in Seq(Row) /\ Inside(Heard(chunk.transcript.words), from, to)
    BY <2>1, HeardInside
  <2> QED BY <1>4, <2>2, <2>3 DEF chunk, from, to
<1>8. /\ spoken \in Seq(Seq(Row)) /\ Len(spoken) = m
      /\ worded \in Seq(Seq(Row)) /\ Len(worded) = m
  BY <1>1, <1>5, <1>7, SequenceOf
<1>9. /\ FlattenSeq(spoken) \in Seq(Row) /\ Inside(FlattenSeq(spoken), 0, Len(pcm))
      /\ \A i \in DOMAIN spoken : \A k \in DOMAIN spoken[i] :
           \E p \in DOMAIN FlattenSeq(spoken) : FlattenSeq(spoken)[p] = spoken[i][k]
  <2>1. Len(spoken) <= Len(ranges) /\ \A i \in DOMAIN spoken : Inside(spoken[i], ranges[i][1], ranges[i][2])
    BY <1>1, <1>3, <1>7, <1>8
  <2>2. spoken \in Seq(Seq(Row)) /\ Len(pcm) \in Nat /\ w \in Nat /\ TilesFrom(ranges, 0, Len(pcm), w)
    BY <1>2, <1>8
  <2> QED BY <2>1, <2>2, RowsRunOn
<1>10. FlattenSeq(worded) \in Seq(Row) /\ Inside(FlattenSeq(worded), 0, Len(pcm))
  BY <1>1, <1>2, <1>3, <1>7, <1>8, RowsRunOn, ZenonT(60)
<1>11. ASSUME NEW i \in 1..m, Spoken(chunks[i].transcript)
       PROVE  \E p \in DOMAIN FlattenSeq(spoken) :
                /\ chunks[i].span[1] <= FlattenSeq(spoken)[p].start
                /\ FlattenSeq(spoken)[p].end <= chunks[i].span[2]
                /\ chunks[i].span[1] \in Nat /\ chunks[i].span[2] \in Nat
  <2>1. 1 \in DOMAIN spoken[i]
    BY <1>7, <1>11
  <2>2. PICK p \in DOMAIN FlattenSeq(spoken) : FlattenSeq(spoken)[p] = spoken[i][1]
    BY <1>3, <1>9, <2>1
  <2>3. ranges[i][1] <= spoken[i][1].start /\ spoken[i][1].end <= ranges[i][2]
    BY <1>7, <2>1 DEF Inside
  <2> QED BY <1>6, <2>2, <2>3
<1> QED BY <1>1, <1>9, <1>10, <1>11 DEF spoken, worded

(* The rows of every answer run on from chunk to chunk and inside the      *)
(* recording, for any transcripts whose rows lie in their chunk one after  *)
(* the other (verbose_json, Transcript::shift, sec).                       *)
THEOREM UploadTimeline == Spec => []Timeline
<1>1. UInv => Timeline
  <2> SUFFICES ASSUME UInv PROVE Timeline
    OBVIOUS
  <2> DEFINE rows == [i \in DOMAIN answer.segments |-> answer.segments[i].row]
             verbose == answer.status = "ok" /\ Field("response_format") = "verbose_json"
  <2>1. CASE ~verbose
    <3>1. answer.segments = <<>> /\ answer.words = <<>>
      BY <2>1 DEF UInv, AnswerInv, NoAnswer, Failure
    <3> QED BY <2>1, <3>1 DEF Timeline, Inside
  <2>2. CASE verbose
    <3> DEFINE spoken == FlattenSeq([i \in DOMAIN chunks |-> SegmentRows(chunks[i])])
               worded == FlattenSeq([i \in DOMAIN chunks |-> Heard(chunks[i].transcript.words)])
    <3>1. answer.segments = Segments(chunks) /\ answer.words = Words(chunks)
      BY <2>2 DEF UInv, AnswerInv, NoAnswer, Failure
    <3>2. /\ answer.segments = [i \in DOMAIN spoken |-> [id |-> i - 1, row |-> Rounded(spoken[i])]]
          /\ answer.words = [i \in DOMAIN worded |-> Rounded(worded[i])]
      BY <3>1 DEF Segments, Words
    <3>3. /\ spoken \in Seq(Row) /\ Inside(spoken, 0, Len(pcm))
          /\ worded \in Seq(Row) /\ Inside(worded, 0, Len(pcm))
          /\ \A i \in DOMAIN chunks : Spoken(chunks[i].transcript) =>
               \E p \in DOMAIN spoken :
                 /\ chunks[i].span[1] <= spoken[p].start /\ spoken[p].end <= chunks[i].span[2]
                 /\ chunks[i].span[1] \in Nat /\ chunks[i].span[2] \in Nat
      BY AllRows
    <3> HIDE DEF spoken, worded
    <3>4. /\ DOMAIN answer.segments = DOMAIN spoken
          /\ \A i \in DOMAIN spoken : answer.segments[i].id = i - 1 /\ answer.segments[i].row = Rounded(spoken[i])
      BY <3>2
    <3>5. rows = [i \in DOMAIN spoken |-> Rounded(spoken[i])]
      BY <3>4
    <3>6. \A i \in DOMAIN rows : answer.segments[i].id = i - 1
      BY <3>4
    <3> HIDE DEF rows
    <3>7. Len(pcm) \in Nat
      BY DEF UInv, RangesInv
    <3>8. Inside(rows, 0, Milliseconds(Len(pcm)))
      BY <3>3, <3>5, <3>7, RoundedInside
    <3>9. Inside(answer.words, 0, Milliseconds(Len(pcm)))
      BY <3>2, <3>3, <3>7, RoundedInside
    <3>10. ASSUME NEW i \in DOMAIN chunks, Spoken(chunks[i].transcript)
           PROVE  \E j \in DOMAIN rows :
                    /\ Milliseconds(chunks[i].span[1]) <= rows[j].start
                    /\ rows[j].end <= Milliseconds(chunks[i].span[2])
      <4> DEFINE from == chunks[i].span[1]
                 to == chunks[i].span[2]
      <4>1. PICK p \in DOMAIN spoken :
              from <= spoken[p].start /\ spoken[p].end <= to /\ from \in Nat /\ to \in Nat
        BY <3>3, <3>10
      <4>2. spoken[p] \in Row
        BY <3>3
      <4>3. /\ spoken[p].start \in Nat /\ spoken[p].end \in Nat
            /\ rows[p].start = Milliseconds(spoken[p].start) /\ rows[p].end = Milliseconds(spoken[p].end)
        BY <3>5, <4>2 DEF Rounded, Row
      <4> HIDE DEF from, to
      <4>4. Milliseconds(from) <= rows[p].start
        BY <4>1, <4>3, MillisecondsRise
      <4>5. rows[p].end <= Milliseconds(to)
        BY <4>1, <4>3, MillisecondsRise
      <4>6. p \in DOMAIN rows
        BY <3>5
      <4> QED BY <4>4, <4>5, <4>6 DEF from, to
    <3> QED BY <3>6, <3>8, <3>9, <3>10 DEF Timeline, rows
  <2> QED BY <2>1, <2>2
<1> QED BY <1>1, UploadInvariance, PTL
=============================================================================
