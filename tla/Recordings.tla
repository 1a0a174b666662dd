----------------------------- MODULE Recordings -----------------------------
(***************************************************************************)
(* What the processes on the way of a video file share: the recordings a   *)
(* camera drops into the directory of its station, and the cold storage    *)
(* the ingestion process writes and the API reads.                         *)
(*                                                                         *)
(* A file is as long as the number of frames written to it so far.  Its    *)
(* SHA-256 is the content itself: which recording, how many frames.  Files *)
(* without a frame are all alike.                                          *)
(***************************************************************************)
EXTENDS VideoProcessing, FiniteSets

CONSTANTS
    Recorded,    \* the recordings of the cameras: numbers, in timestamp order
    Uploaded,    \* the files users upload themselves
    Station,     \* the station codes
    Home,        \* recording -> its station
    Clip,        \* recording -> its frames
    Roi,         \* station -> its region of interest
    MaxFaults,   \* bound on crashes, timeouts and failed operations
    Null         \* no file

Recording == Recorded \cup Uploaded

(* What OpenCV reports of a frame.                                           *)
Marker == [id : Nat, x : Int, y : Int, w : Int, h : Int]
Frame  == [area : Int, markers : Seq(Marker)]

ASSUME RecordingAssumption ==
    /\ Recording \subseteq Nat \ {0}
    /\ Recorded \cap Uploaded = {}
    /\ \A f \in Recorded : Home[f] \in Station
    /\ \A f \in Recording : Clip[f] \in Seq(Frame) /\ Len(Clip[f]) \in Nat \ {0}

VARIABLES
    source,   \* recording -> its file in the station's directory
    cold,     \* name -> the content of the file in cold storage, or Null
    faults    \* how many faults happened

storageVars == <<source, cold, faults>>

Content(f, n) == [rec |-> IF n = 0 THEN 0 ELSE f, frames |-> n]

Whole(f) == Content(f, Len(Clip[f]))

Contents == UNION {{Content(f, n) : n \in 0 .. Len(Clip[f])} : f \in Recording}

(* `at' is "queue" while the file is in the station's directory.             *)
Source == [at : {"nowhere", "queue", "removed"}, frames : Nat]

StorageInit ==
    /\ source = [f \in Recorded |-> [at |-> "nowhere", frames |-> 0]]
    /\ cold = [c \in Contents |-> Null]
    /\ faults = 0

(* A file in cold storage while recording f is copied over it: `copyfile'    *)
(* truncates it first, and whoever reads it meanwhile sees some part of f.   *)
Torn(f) == [rec |-> f, frames |-> -1]

ASSUME NullAssumption == Null \notin Contents \cup {Torn(f) : f \in Recorded}

Parts(f) == {Content(f, n) : n \in 0 .. source[f].frames}

Readings(name) ==
    IF cold[name].frames = -1 THEN Parts(cold[name].rec) ELSE {cold[name]}

Fault ==
    /\ faults < MaxFaults                                            \* bound
    /\ faults' = faults + 1

(* The camera opens a file and writes to it.                                 *)
CameraOpens(f) ==
    /\ source[f].at = "nowhere"
    /\ source' = [source EXCEPT ![f].at = "queue"]
    /\ UNCHANGED <<cold, faults>>

CameraWrites(f) ==
    /\ source[f].at = "queue" /\ source[f].frames < Len(Clip[f])
    /\ source' = [source EXCEPT ![f].frames = @ + 1]
    /\ UNCHANGED <<cold, faults>>

Finished(f) == source[f].frames = Len(Clip[f])

StorageTypeOK ==
    /\ source \in [Recorded -> Source]
    /\ cold \in [Contents -> Contents \cup {Torn(f) : f \in Recorded} \cup {Null}]
    /\ faults \in Nat
=============================================================================
