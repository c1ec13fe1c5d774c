-------------------------------- MODULE Capture --------------------------------
(***************************************************************************)
(* capture_cmd of main.rs and the ResearchRecorder of research.rs: what the*)
(* launch feed sends is recorded, an hour later each launch is followed up,*)
(* and the file of events is closed with a manifest that verify_capture    *)
(* compares with it.  Lines go through a buffer to the file, and survive a *)
(* loss of power once they are synced.  Left out: what a record says, the  *)
(* stop reason, the four permits of the follow-ups.                        *)
(***************************************************************************)
EXTENDS Integers, SequencesExt

CONSTANTS
  Seen,          \* launches the feed sends
  Size,          \* of a line, per kind
  MaxBytes,      \* CaptureLimits::max_bytes
  Reserve,       \* CAPTURE_MANIFEST_RESERVE_BYTES
  ManifestSize,  \* of the manifest, which fits its reserve
  MaxIoFaults    \* bound: failed writes and syncs, and the crash

Kind == {"launch", "flow", "missing"}

ASSUME CaptureAssumption ==
  /\ Size \in [Kind -> Nat \ {0}]
  /\ {MaxBytes, Reserve, ManifestSize, MaxIoFaults} \subseteq Nat
  /\ ManifestSize <= Reserve /\ Reserve < MaxBytes

VARIABLES
  command,   \* capture_cmd: where it is, its result, and whether its time is over
  unseen,    \* launches the feed has yet to send
  pending,   \* launches to be followed up, in order
  followers, \* follow-ups under way
  recorder,  \* the ResearchRecorder: where it is, and the records it acknowledged
  buffer,    \* lines of its BufWriter
  output,    \* events.jsonl and manifest.json
  ioFaults

captureVars == <<command, unseen, pending, followers, recorder, buffer, output, ioFaults>>
writeVars == <<recorder, buffer, output, ioFaults>>

\* What a follow-up comes to: any reading of it may fail.
FollowKind == {"flow", "missing"}

Record == [kind : Kind, of : Seen]
NoManifest == [at |-> "none", log |-> <<>>]

CaptureTypeOK ==
  /\ command.at \in {"loop", "shut", "finish", "ended", "gone"}
  /\ command.result \in {"none", "ok", "error"} /\ command.over \in BOOLEAN
  /\ unseen \subseteq Seen /\ followers \subseteq Seen /\ pending \in Seq(Seen)
  /\ recorder.at \in {"open", "flush", "sync", "manifest", "seal", "sealed", "failed", "gone"}
  /\ recorder.log \in Seq(Record) /\ buffer \in Seq(Record)
  /\ output.events \in Seq(Record) /\ output.part \in BOOLEAN /\ output.synced \in 0 .. Len(output.events)
  /\ output.manifest.at \in {"none", "part", "whole", "synced"} /\ output.manifest.log \in Seq(Record)

CaptureInit ==
  /\ command = [at |-> "loop", result |-> "none", over |-> FALSE]
  /\ unseen = Seen /\ pending = <<>> /\ followers = {}
  /\ recorder = [at |-> "open", log |-> <<>>] /\ buffer = <<>> /\ ioFaults = 0
  /\ output = [events |-> <<>>, part |-> FALSE, synced |-> 0, manifest |-> NoManifest]

IoFault == ioFaults < MaxIoFaults /\ ioFaults' = ioFaults + 1

Bytes(log) ==
  LET size == [i \in DOMAIN log |-> Size[log[i].kind]]
  IN  MapThenSumSet(LAMBDA i : size[i], DOMAIN log)

-----------------------------------------------------------------------------
(* ResearchRecorder::record *)

\* Mutant: no room is kept for the manifest.
RoomToTheLimit(r) == Bytes(recorder.log) + Size[r.kind] <= MaxBytes

Room(r) == Bytes(recorder.log) + Size[r.kind] + Reserve <= MaxBytes

\* k lines of `lines` reach the file, and maybe a part of the one after them.
Reach(lines, k, part) ==
  output' = [output EXCEPT !.events = @ \o SubSeq(lines, 1, k), !.part = part]

\* A line is pushed to the buffer, which may have to be emptied first, or bypassed.
Write(r) ==
  LET lines == Append(buffer, r)
  IN  \E k \in {0, Len(buffer), Len(lines)} :
        /\ Reach(lines, k, output.part) /\ buffer' = SubSeq(lines, k + 1, Len(lines))
        /\ recorder' = [recorder EXCEPT !.log = Append(@, r)]
        /\ UNCHANGED ioFaults

\* Some lines of `lines`, of which the buffer is a prefix, reach the file before the error.
WriteFails(lines) ==
  /\ \E k \in 0 .. Len(buffer), part \in BOOLEAN :
       /\ part => k < Len(lines)
       /\ k = 0 /\ output.part => part
       /\ Reach(buffer, k, part) /\ buffer' = SubSeq(buffer, k + 1, Len(buffer))
  /\ IoFault

\* `record`: acknowledged; or the capture is finished in its place; or its error is
\* the command's, and the recorder finishes as it is dropped.
Recorded(r) ==
  ~ command.over /\ Room(r) /\ Write(r) /\ UNCHANGED command
Limited(r) ==
  /\ command.over \/ ~ Room(r)
  /\ recorder' = [recorder EXCEPT !.at = "flush"]
  /\ UNCHANGED <<command, buffer, output, ioFaults>>
Refused(r) ==
  /\ ~ command.over /\ Room(r) /\ WriteFails(Append(buffer, r))
  /\ recorder' = [recorder EXCEPT !.at = "flush"]
  /\ command' = [command EXCEPT !.at = "ended", !.result = "error"]

-----------------------------------------------------------------------------
(* capture_cmd: one event at a time *)

Looping == command.at = "loop" /\ recorder.at = "open"

\* A launch from the feed, to be followed up if it was recorded.
Receive(l) ==
  LET r == [kind |-> "launch", of |-> l]
  IN  /\ Looping /\ l \in unseen /\ unseen' = unseen \ {l}
      /\ \/ Recorded(r) /\ pending' = Append(pending, l)
         \/ (Limited(r) \/ Refused(r)) /\ UNCHANGED pending
      /\ UNCHANGED followers

\* The hour of the first one is over.
FollowUp ==
  /\ Looping /\ pending # <<>>
  /\ pending' = Tail(pending) /\ followers' = followers \cup {Head(pending)}
  /\ UNCHANGED <<command, unseen, writeVars>>

\* A follow-up is recorded, or that it is missing.
Followed(l, kind) ==
  LET r == [kind |-> kind, of |-> l]
  IN  /\ Looping /\ l \in followers
      /\ followers' = followers \ {l}
      /\ Recorded(r) \/ Limited(r) \/ Refused(r)
      /\ UNCHANGED <<unseen, pending>>

TimePasses ==
  /\ command.at = "loop" /\ ~ command.over
  /\ command' = [command EXCEPT !.over = TRUE]
  /\ UNCHANGED <<unseen, pending, followers, writeVars>>

\* Ctrl-C, the deadline, or the feed is closed; or a record has finished the capture.
Break ==
  /\ command.at = "loop" /\ recorder.at \in {"open", "sealed"}
  /\ command' = [command EXCEPT !.at = "shut"]
  /\ UNCHANGED <<unseen, pending, followers, writeVars>>

\* The feed is shut down and the follow-ups aborted.
Shut ==
  /\ command.at = "shut"
  /\ command' = [command EXCEPT !.at = "finish"] /\ followers' = {}
  /\ UNCHANGED <<unseen, pending, writeVars>>

\* `finish` of an open recorder, or the manifest of one that was finished.
Finish ==
  /\ command.at = "finish" /\ recorder.at = "open"
  /\ recorder' = [recorder EXCEPT !.at = "flush"]
  /\ UNCHANGED <<command, unseen, pending, followers, buffer, output, ioFaults>>

Return ==
  /\ \/ command.at = "finish" /\ recorder.at = "sealed"
        /\ command' = [command EXCEPT !.at = "ended", !.result = "ok"]
     \/ command.at \in {"loop", "finish"} /\ recorder.at = "failed"
        /\ command' = [command EXCEPT !.at = "ended", !.result = "error"]
  /\ UNCHANGED <<unseen, pending, followers, writeVars>>

-----------------------------------------------------------------------------
(* ResearchRecorder::finish: the writer is taken, and not put back by an error *)

FlushAll == Reach(buffer, Len(buffer), buffer = <<>> /\ output.part) /\ buffer' = <<>>

FinishFlush ==
  /\ recorder.at = "flush"
  /\ \/ FlushAll /\ recorder' = [recorder EXCEPT !.at = "sync"] /\ UNCHANGED ioFaults
     \/ buffer # <<>> /\ WriteFails(buffer) /\ recorder' = [recorder EXCEPT !.at = "failed"]

FinishSync ==
  /\ recorder.at = "sync"
  /\ \/ /\ output' = [output EXCEPT !.synced = Len(output.events)]
        /\ recorder' = [recorder EXCEPT !.at = "manifest"] /\ UNCHANGED ioFaults
     \/ IoFault /\ recorder' = [recorder EXCEPT !.at = "failed"] /\ UNCHANGED output
  /\ UNCHANGED buffer

\* A manifest that does not fit is an error; one that is there is not written over.
FinishManifest ==
  LET put(at) == output' = [output EXCEPT !.manifest = [at |-> at, log |-> recorder.log]]
      fits == Bytes(recorder.log) + ManifestSize <= MaxBytes
  IN  /\ recorder.at = "manifest"
      /\ \/ /\ fits /\ put("whole")
            /\ recorder' = [recorder EXCEPT !.at = "seal"] /\ UNCHANGED ioFaults
         \/ /\ IF fits THEN IoFault /\ (put("part") \/ UNCHANGED output) ELSE UNCHANGED <<output, ioFaults>>
            /\ recorder' = [recorder EXCEPT !.at = "failed"]
      /\ UNCHANGED buffer

FinishSeal ==
  /\ recorder.at = "seal"
  /\ \/ /\ output' = [output EXCEPT !.manifest.at = "synced"]
        /\ recorder' = [recorder EXCEPT !.at = "sealed"] /\ UNCHANGED ioFaults
     \/ IoFault /\ recorder' = [recorder EXCEPT !.at = "failed"] /\ UNCHANGED output
  /\ UNCHANGED buffer

FinishStep ==
  /\ FinishFlush \/ FinishSync \/ FinishManifest \/ FinishSeal
  /\ UNCHANGED <<command, unseen, pending, followers>>

\* External: a kill, or a loss of power, of any moment.
PowerFails ==
  /\ command.at # "gone" /\ IoFault
  /\ command' = [command EXCEPT !.at = "gone"] /\ recorder' = [recorder EXCEPT !.at = "gone"]
  /\ buffer' = <<>> /\ UNCHANGED <<unseen, pending, followers>>
  /\ \E k \in output.synced .. Len(output.events), at \in {"none", "part", "whole", "synced"} :
       /\ at # output.manifest.at => output.manifest.at = "whole" /\ at # "synced"
       /\ \E part \in IF k < Len(output.events) \/ buffer # <<>> THEN BOOLEAN ELSE {output.part} :
            output' = [output EXCEPT !.events = SubSeq(@, 1, k), !.part = part, !.manifest.at = at]

CaptureNext ==
  \/ \E l \in Seen : Receive(l) \/ \E kind \in FollowKind : Followed(l, kind)
  \/ FollowUp \/ TimePasses \/ Break \/ Shut \/ Finish \/ Return
  \/ FinishStep \/ PowerFails

-----------------------------------------------------------------------------
(* verify_capture, and properties *)

Readable(manifest) == manifest.at \in {"whole", "synced"}

\* The manifest's count, bytes and rolling hash are those of the lines, which end in
\* a newline, each one the next of the run.
Verifies ==
  /\ Readable(output.manifest) /\ ~ output.part
  /\ output.events = output.manifest.log
  /\ Bytes(output.events) + ManifestSize <= MaxBytes

CaptureDataset == INSTANCE Dataset WITH
  Item      <- Record,
  run       <- recorder.log,
  published <- IF Verifies THEN {output.events} ELSE {},
  status    <- CASE command.result = "ok" -> "well" [] command.result = "error" -> "badly" [] OTHER -> "open",
  broken    <- ioFaults > 0

\* docs/COMMANDS.md: a "bounded read-only research capture with a verified manifest".
\* A capture that verifies holds what the recorder acknowledged, whole, in order and
\* finally; a command that ended well left one, whatever happens later; and it ends
\* well unless a write failed.
IsDataset == CaptureDataset!Spec

\* docs/COMMANDS.md: the recorder "records missing follow-ups explicitly".  TLC refutes
\* it: follow-ups that are due or under way when the capture ends leave no record.
MissingIsExplicit ==
  command.result = "ok" =>
    \A r \in ToSet(recorder.log) : \E f \in ToSet(recorder.log) : f.of = r.of /\ f.kind # "launch"
===============================================================================
