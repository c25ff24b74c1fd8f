------------------------------- MODULE Upload -------------------------------
(***************************************************************************)
(* One request to /v1/audio/transcriptions or /v1/audio/translations: the  *)
(* multipart body in whatever order the client sends it, the checks, the   *)
(* decoding, one transcribe_range per chunk, and the answer.               *)
(*                                                                         *)
(* transcribe_range is what SlotService promises of it: an answer, busy,   *)
(* or an error.  The client may hang up wherever the handler awaits.       *)
(***************************************************************************)
EXTENDS VerboseBody, ChunkCut

CONSTANTS
  Catalogue,        \* the loaded models, in configuration order
  FieldValues,      \* the values a client sends, by field name
  MaxFields,        \* bound: a client names no more fields than this
  DefaultLanguage,  \* --language
  Garbage,          \* a file that does not decode
  Transcripts(_, _) \* what the engine may return: of the options, for a chunk of a length

FieldNames == {"file", "model", "language", "response_format", "target_language", "pnc", "itn"}

Info == [id : STRING, translates : BOOLEAN, targets : Seq(Code), limit : Nat, switches : SUBSET {"pnc", "itn"}]

ASSUME CatalogueAssumption ==
  /\ Catalogue \in Seq(Info) \ {<<>>}
  /\ \A i \in DOMAIN Catalogue : Catalogue[i].limit = 0 \/ Catalogue[i].limit > Frame
ASSUME FieldsAssumption ==
  /\ DOMAIN FieldValues \subseteq FieldNames /\ MaxFields \in Nat
  /\ \A name \in DOMAIN FieldValues :
       /\ name = "file" => FieldValues[name] \subseteq Seq(Sample) \cup {Garbage}
       /\ name \in {"language", "target_language", "pnc", "itn"} => FieldValues[name] \subseteq Code
ASSUME LanguageAssumption == DefaultLanguage \in Code \cup {None}

(* chunk_ranges, for a chunk length (ChunkRanges). *)
Split(recording, max) ==
  LET rest[from \in 0..Len(recording)] ==
        IF from = Len(recording) THEN <<>>
        ELSE <<<<from, FirstCut(recording, from, max)>>>> \o rest[FirstCut(recording, from, max)]
  IN  rest[0]

VARIABLES
  pc,       \* reading, checking, decoding, transcribing, answered or abandoned
  task,     \* the route: "transcribe" or "translate"
  fields,   \* the fields read so far, the last of a name counts
  drained,  \* the body has been read to its end
  target,   \* TranscribeOptions.target_language
  pcm,      \* the decoded audio
  ranges,   \* what it is split into
  chunks,   \* the chunks transcribed so far
  answer    \* the response

vars == <<pc, task, fields, drained, target, pcm, ranges, chunks, answer>>

NoAnswer == [status |-> "none", text |-> <<>>, segments |-> <<>>, words |-> <<>>, language |-> None]
Failure(status) == [NoAnswer EXCEPT !.status = status]

Init ==
  /\ pc = "reading"
  /\ task \in {"transcribe", "translate"}
  /\ fields = [name \in {} |-> None]
  /\ drained = FALSE
  /\ target = None
  /\ pcm = <<>>
  /\ ranges = <<>>
  /\ chunks = <<>>
  /\ answer = NoAnswer

Field(name) == IF name \in DOMAIN fields THEN fields[name] ELSE None

(* The model is resolved once, from the alias alone. *)
Model == ResolveModel(Catalogue, Field("model"))

Refuse(status) == pc' = "answered" /\ answer' = Failure(status)

----------------------------------------------------------------------------
(* The body.                                                               *)

(* Mutant of ReadField: a toggle is checked as soon as it is read. *)
ReadFieldChecked(name, value) ==
  /\ pc = "reading"
  /\ Cardinality(DOMAIN fields \cup {name}) <= MaxFields
  /\ fields' = [n \in DOMAIN fields \cup {name} |-> IF n = name THEN value ELSE fields[n]]
  /\ IF name \in {"pnc", "itn"} /\ Toggle(value) = "bad" THEN Refuse("bad_request") ELSE UNCHANGED <<pc, answer>>
  /\ UNCHANGED <<task, drained, target, pcm, ranges, chunks>>

ReadField(name, value) ==
  /\ pc = "reading"
  /\ Cardinality(DOMAIN fields \cup {name}) <= MaxFields
  /\ fields' = [n \in DOMAIN fields \cup {name} |-> IF n = name THEN value ELSE fields[n]]
  /\ UNCHANGED <<pc, task, drained, target, pcm, ranges, chunks, answer>>

(* multipart_error: past --max-upload-mb, or not multipart at all. *)
BodyFails(status) ==
  /\ pc = "reading"
  /\ Refuse(status)
  /\ UNCHANGED <<task, fields, drained, target, pcm, ranges, chunks>>

EndBody ==
  /\ pc = "reading"
  /\ pc' = "checking"
  /\ drained' = TRUE
  /\ UNCHANGED <<task, fields, target, pcm, ranges, chunks, answer>>

----------------------------------------------------------------------------
(* The checks, between two awaits.                                         *)

Acceptable ==
  /\ "bad" \notin {ToggleField(Field("pnc")), ToggleField(Field("itn"))}
  /\ Field("response_format") # "bad"
  /\ Field("file") # None
  /\ task = "translate" => ~TranslationRefused(Model, Field("target_language"))

Reject ==
  /\ pc = "checking"
  /\ ~Acceptable
  /\ Refuse("bad_request")
  /\ UNCHANGED <<task, fields, drained, target, pcm, ranges, chunks>>

(* The engine is handed the target as the model spells it. *)
Accept ==
  /\ pc = "checking"
  /\ Acceptable
  /\ pc' = "decoding"
  /\ target' = IF task = "translate" /\ Field("target_language") # None
               THEN CanonicalTarget(Model, Field("target_language")) ELSE None
  /\ UNCHANGED <<task, fields, drained, pcm, ranges, chunks, answer>>

----------------------------------------------------------------------------
(* Decoding on a blocking thread, and the chunks one after the other.      *)

Decode ==
  /\ pc = "decoding"
  /\ \/ /\ Field("file") = Garbage
        /\ Refuse("bad_request")
        /\ UNCHANGED <<pcm, ranges>>
     \/ /\ Field("file") # Garbage
        /\ pcm' = Field("file")
        /\ ranges' = Split(pcm', ChunkMax(Model))
        /\ pc' = "transcribing"
        /\ UNCHANGED answer
  /\ UNCHANGED <<task, fields, drained, target, chunks>>

DecodePanics ==
  /\ pc = "decoding"
  /\ Refuse("internal")
  /\ UNCHANGED <<task, fields, drained, target, pcm, ranges, chunks>>

NextRange == ranges[Len(chunks) + 1]

(* What the engine refuses, on its own account, of what it is handed. *)
EngineRefuses ==
  task = "translate" /\ TranslationRefused(EngineResolve(Catalogue, Field("model")), target)

(* The hint a client sent, unless it is blank, else --language. *)
Hint ==
  IF Field("language") = None \/ Field("language").name = "" THEN DefaultLanguage
  ELSE Trim(Field("language"))

(* TranscribeOptions, the same for every chunk. *)
Options ==
  [task |-> task, language |-> Hint, target |-> target,
   pnc |-> Otherwise(ToggleField(Field("pnc")), DefaultPnc),
   itn |-> Otherwise(ToggleField(Field("itn")), DefaultItn)]

(* What the engine asks of the library for the next chunk. *)
Asked == LibraryOptions(Options, EngineResolve(Catalogue, Field("model")))

(* Rows between two times, none begun before the last has ended. *)
Inside(rows, from, to) == \A i, j \in DOMAIN rows :
  /\ from <= rows[i].start /\ rows[i].start <= rows[i].end /\ rows[i].end <= to
  /\ i < j => rows[i].end <= rows[j].start

(* session.run: the rows lie in the chunk, one after the other. *)
EngineReturns(options, length) == {transcript \in Transcripts(options, length) :
  transcript \in Transcript /\ Inside(transcript.segments, 0, length) /\ Inside(transcript.words, 0, length)}

(* The next chunk's transcript, with its times made absolute. *)
Transcribe ==
  /\ pc = "transcribing"
  /\ Len(chunks) < Len(ranges)
  /\ ~EngineRefuses
  /\ \E transcript \in EngineReturns(Options, NextRange[2] - NextRange[1]) :
       chunks' = Append(chunks, [span |-> NextRange, asked |-> Asked, transcript |-> Shifted(transcript, NextRange[1])])
  /\ UNCHANGED <<pc, task, fields, drained, target, pcm, ranges, answer>>

(* No permit in time, a failed run, a refusal: the first error is the      *)
(* answer and the other chunks are not transcribed.                        *)
TranscribeFails(status) ==
  /\ pc = "transcribing"
  /\ Len(chunks) < Len(ranges)
  /\ status = "bad_request" <=> EngineRefuses
  /\ Refuse(status)
  /\ UNCHANGED <<task, fields, drained, target, pcm, ranges, chunks>>

(* The language verbose_json falls back to, or for a translation reports. *)
Reported ==
  IF task = "transcribe" THEN Hint
  ELSE IF target # None THEN target ELSE SingleTarget(Model)

(* Mutant of Respond: a recording without a chunk has no answer. *)
RespondToChunks ==
  /\ pc = "transcribing"
  /\ Len(chunks) = Len(ranges) /\ chunks # <<>>
  /\ pc' = "answered"
  /\ answer' = [NoAnswer EXCEPT !.status = "ok", !.text = JoinedText(chunks)]
  /\ UNCHANGED <<task, fields, drained, target, pcm, ranges, chunks>>

(* Mutant of Respond: what has been transcribed will do. *)
RespondEarly ==
  /\ pc = "transcribing"
  /\ chunks # <<>>
  /\ pc' = "answered"
  /\ answer' = [status |-> "ok", text |-> JoinedText(chunks),
                segments |-> Segments(chunks), words |-> Words(chunks),
                language |-> Language(chunks, task, Reported)]
  /\ UNCHANGED <<task, fields, drained, target, pcm, ranges, chunks>>

(* json and text carry the joined text only. *)
Respond ==
  /\ pc = "transcribing"
  /\ Len(chunks) = Len(ranges)
  /\ pc' = "answered"
  /\ answer' =
       IF Field("response_format") = "verbose_json"
       THEN [status |-> "ok", text |-> JoinedText(chunks),
             segments |-> Segments(chunks), words |-> Words(chunks),
             language |-> Language(chunks, task, Reported)]
       ELSE [NoAnswer EXCEPT !.status = "ok", !.text = JoinedText(chunks)]
  /\ UNCHANGED <<task, fields, drained, target, pcm, ranges, chunks>>

(* The handler's future is dropped; a decode that has begun runs on, and   *)
(* nobody reads it.                                                        *)
HangUp ==
  /\ pc \in {"reading", "decoding", "transcribing"}
  /\ pc' = "abandoned"
  /\ UNCHANGED <<task, fields, drained, target, pcm, ranges, chunks, answer>>

Next ==
  \/ \E name \in DOMAIN FieldValues : \E value \in FieldValues[name] : ReadField(name, value)
  \/ \E status \in {"too_large", "invalid_body"} : BodyFails(status)
  \/ EndBody \/ Reject \/ Accept \/ Decode \/ DecodePanics \/ Transcribe
  \/ \E status \in {"busy", "internal", "bad_request"} : TranscribeFails(status)
  \/ Respond \/ HangUp

Spec == Init /\ [][Next]_vars

(* The handler is polled, the decode and the engine answer (EngineSlots);  *)
(* the client may stall its body for ever.                                 *)
Fairness == WF_vars(
  \/ Reject \/ Accept \/ Decode \/ DecodePanics \/ Transcribe \/ Respond
  \/ \E status \in {"busy", "internal", "bad_request"} : TranscribeFails(status))

FairSpec == Spec /\ Fairness

----------------------------------------------------------------------------
(* Once a translation is past the checks the engine's own check agrees:    *)
(* an impossible one is answered before the upload is decoded and before   *)
(* it waits for a slot (reject_impossible_translation: "the engine keeps   *)
(* its own check: it is the authority, this is the shortcut").             *)
EngineNeverRefuses == pc \in {"decoding", "transcribing"} => ~EngineRefuses

(* The library is asked for what the request says, for every chunk: the    *)
(* task of its route; a target only for a translation, that names the      *)
(* language asked for in the model's own spelling if the model lists any;  *)
(* a switch only of a model that has it, as the request sets it, if it     *)
(* does, else the server ("request wins over the server-wide default").    *)
AskedAsRequested == \A i \in DOMAIN chunks :
  LET asked == chunks[i].asked
      model == EngineResolve(Catalogue, Field("model"))
      sent == Field("target_language")
      set == [pnc |-> DefaultPnc, itn |-> DefaultItn]
  IN  /\ asked.task = task
      /\ asked.target = None <=> task = "transcribe" \/ sent = None
      /\ asked.target # None =>
           /\ LanguageEq(asked.target, sent)
           /\ IF model.targets = <<>> THEN ~asked.target.spaced
              ELSE \E j \in DOMAIN model.targets : model.targets[j] = asked.target
      /\ \A name \in {"pnc", "itn"} :
           /\ asked[name] # "default" =>
                /\ name \in model.switches
                /\ IF Field(name) = None THEN asked[name] = set[name] ELSE asked[name] = Toggle(Field(name))
           /\ asked[name] = "default" => name \notin model.switches \/ (Field(name) = None /\ set[name] = None)

(* Whatever the checks find, the body is read to its end before the client *)
(* is told ("field order is the client's choice").                         *)
BodyReadFirst == answer.status \notin {"none", "invalid_body", "too_large"} => drained

(* No chunk is longer than --chunk-max-sec, or reaches the limit of the    *)
(* model it will run on (MODEL_WINDOW_MARGIN_SEC: "strictly inside").      *)
InsideModelLimit == \A i \in DOMAIN chunks :
  LET length == chunks[i].span[2] - chunks[i].span[1]
      limit == EngineResolve(Catalogue, Field("model")).limit
  IN  /\ length <= Configured \/ length <= Frame
      /\ limit > 0 => length < limit

(* An answer accounts for the whole recording: its chunks follow on each   *)
(* other from the first sample to the last.                                *)
WholeRecording == answer.status = "ok" =>
  /\ \A i \in DOMAIN chunks :
       chunks[i].span[1] = IF i = 1 THEN 0 ELSE chunks[i - 1].span[2]
  /\ Len(pcm) = IF chunks = <<>> THEN 0 ELSE chunks[Len(chunks)].span[2]

(* Text, and if the model reports rows, one of them with text. *)
Spoken(transcript) ==
  transcript.text /\ (transcript.segments = <<>> \/ \E k \in DOMAIN transcript.segments : transcript.segments[k].text)

(* Segments and words run on from chunk to chunk, from the start of the    *)
(* recording and inside it (README: "from the start of the file, not of    *)
(* the chunk"), and a chunk with text is found where it was spoken, also   *)
(* when the model reports no rows at all.                                  *)
Timeline ==
  LET rows == [i \in DOMAIN answer.segments |-> answer.segments[i].row]
  IN  /\ Inside(rows, 0, Milliseconds(Len(pcm))) /\ Inside(answer.words, 0, Milliseconds(Len(pcm)))
      /\ \A i \in DOMAIN rows : answer.segments[i].id = i - 1
      /\ answer.status = "ok" /\ Field("response_format") = "verbose_json" =>
           \A i \in DOMAIN chunks : Spoken(chunks[i].transcript) =>
             \E j \in DOMAIN rows :
               /\ Milliseconds(chunks[i].span[1]) <= rows[j].start
               /\ rows[j].end <= Milliseconds(chunks[i].span[2])

(* A translation is never labelled with the language it was spoken in:     *)
(* what it is labelled with is what the model was asked for, or all it can *)
(* produce (README, verbose_json of a translation).                        *)
LanguageTold == answer.language # None /\ task = "translate" =>
  \/ answer.language = target
  \/ target = None /\ EngineResolve(Catalogue, Field("model")).targets = <<answer.language>>
  \/ target = None /\ answer.language = Unknown

(* The inductive invariant.  The fields are what a client sends, and the   *)
(* body is read before anything is made of them.                           *)
FieldsInv ==
  /\ pc \in {"reading", "checking", "decoding", "transcribing", "answered", "abandoned"}
  /\ task \in {"transcribe", "translate"}
  /\ DOMAIN fields \subseteq DOMAIN FieldValues
  /\ \A name \in DOMAIN fields : fields[name] \in FieldValues[name]
  /\ pc \notin {"reading", "answered", "abandoned"} => drained

(* Past the checks, what they found still stands.                          *)
HandedTarget ==
  IF task = "translate" /\ Field("target_language") # None
  THEN CanonicalTarget(Model, Field("target_language")) ELSE None

CheckedInv ==
  /\ pc \in {"reading", "checking"} => target = None
  /\ pc \in {"reading", "checking", "decoding"} => pcm = <<>> /\ ranges = <<>> /\ chunks = <<>>
  /\ pc \in {"decoding", "transcribing"} \/ chunks # <<>> \/ answer.status = "ok" =>
       Acceptable /\ target = HandedTarget

(* The ranges tile the recording, and are short enough for the model.      *)
RangesInv ==
  /\ pcm \in Seq(Sample)
  /\ ranges \in Seq(Nat \X Nat)
  /\ \A i \in DOMAIN ranges :
       /\ ranges[i][1] = IF i = 1 THEN 0 ELSE ranges[i - 1][2]
       /\ ranges[i][1] < ranges[i][2] /\ ranges[i][2] - ranges[i][1] <= Window(ChunkMax(Model))
  /\ Len(pcm) = IF ranges = <<>> THEN 0 ELSE ranges[Len(ranges)][2]

(* A chunk is one range, and its rows lie inside it.                       *)
Chunk == [span : Nat \X Nat, asked : {Asked}, transcript : Transcript]

ChunksInv ==
  /\ chunks \in Seq(Chunk) /\ Len(chunks) <= Len(ranges)
  /\ \A i \in DOMAIN chunks :
       /\ chunks[i].span = ranges[i]
       /\ Inside(chunks[i].transcript.segments, ranges[i][1], ranges[i][2])
       /\ Inside(chunks[i].transcript.words, ranges[i][1], ranges[i][2])

(* What is answered: nothing yet, an error, or the whole transcript.       *)
AnswerInv ==
  \/ answer = NoAnswer /\ pc # "answered"
  \/ pc = "answered" /\ \E status \in {"too_large", "invalid_body"} : answer = Failure(status)
  \/ pc = "answered" /\ drained /\ \E status \in {"bad_request", "busy", "internal"} : answer = Failure(status)
  \/ /\ pc = "answered" /\ drained /\ answer.status = "ok" /\ Len(chunks) = Len(ranges)
     /\ \/ /\ Field("response_format") = "verbose_json"
           /\ answer.segments = Segments(chunks) /\ answer.words = Words(chunks)
           /\ answer.language = Language(chunks, task, Reported)
        \/ /\ Field("response_format") # "verbose_json"
           /\ answer.segments = <<>> /\ answer.words = <<>> /\ answer.language = None

UInv == FieldsInv /\ CheckedInv /\ RangesInv /\ ChunksInv /\ AnswerInv

(* A request whose body has been read is answered, unless its client goes. *)
Answered == drained ~> pc \in {"answered", "abandoned"}
=============================================================================
