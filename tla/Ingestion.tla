------------------------------ MODULE Ingestion ------------------------------
(***************************************************************************)
(* The ingestion process (ingestion/main.py, cursor.py): a watcher starts  *)
(* a producer for every station directory; a producer takes the files of   *)
(* its directory one after the other, copies each to cold storage, posts   *)
(* it to the API and removes it when the API has it.                       *)
(*                                                                         *)
(* Everything runs in one event loop, and hashing and copying block it, so *)
(* while a file is being copied no other producer does anything.           *)
(***************************************************************************)
EXTENDS VideoIntake

CONSTANT Permits   \* config.num_concurrent_requests

VARIABLES
    dir,        \* the stations whose directory exists
    producer,   \* station -> the state of its producer
    doubted,    \* history: recordings with a POST that ended without an answer
    clipped,    \* history: recordings taken before the camera had finished them
    recopied    \* history: recordings copied over an earlier copy

ingestVars == <<dir, producer, doubted, clipped, recopied>>

(* `left' is what is left of the directory listing, `name' the file's hash   *)
(* when it was looked at.                                                    *)
Producer == [pc : {"off", "scanning", "waiting", "copying", "posting", "sleeping"},
             left : SUBSET Recorded, item : Recorded \cup {0},
             name : Contents \cup {Null}, slot : Slot \cup {0}]

Off == [pc |-> "off", left |-> {}, item |-> 0, name |-> Null, slot |-> 0]

IngestInit ==
    /\ dir = Station
    /\ producer = [s \in Station |-> Off]
    /\ doubted = {}
    /\ clipped = {}
    /\ recopied = {}

LoopFree == \A s \in Station : producer[s].pc # "copying"

At(s, pc) == producer[s].pc = pc /\ LoopFree

(* The producer is done with its file, or is back at the listing.            *)
NextFile(p) == [Off EXCEPT !.pc = "scanning", !.left = p.left]

Asleep == [Off EXCEPT !.pc = "sleeping"]

-----------------------------------------------------------------------------
(* `watch_station_dirs' finds a directory without a producer.                *)
StartProducer(s) ==
    /\ At(s, "off") /\ s \in dir
    /\ producer' = [producer EXCEPT ![s] = [Off EXCEPT !.pc = "scanning"]]
    /\ UNCHANGED <<dir, doubted, clipped, recopied, intakeVars, storageVars>>

(* `iterdir': the files there are now, in the order of their names; none, and *)
(* the producer looks again later.                                            *)
ListDirectory(s) ==
    LET files == {f \in Recorded : Home[f] = s /\ source[f].at = "queue"}
    IN  /\ At(s, "scanning") /\ producer[s].left = {}
        /\ producer' = [producer EXCEPT ![s] = IF s \in dir THEN [@ EXCEPT !.left = files]
                                                            ELSE Asleep]
        /\ UNCHANGED <<dir, doubted, clipped, recopied, intakeVars, storageVars>>

(* `StationVideoFile.build' hashes the next file, whether or not the camera  *)
(* has finished it.  A directory that is gone has no files.                  *)
TakeFile(s) ==
    LET left == producer[s].left
    IN  /\ At(s, "scanning")
        /\ \E f \in left :
             /\ \A g \in left : f <= g
             /\ producer' = [producer EXCEPT ![s] =
                   IF s \notin dir THEN NextFile([@ EXCEPT !.left = left \ {f}])
                   ELSE [@ EXCEPT !.pc = "waiting", !.left = left \ {f}, !.item = f,
                                  !.name = Content(f, source[f].frames)]]
             /\ clipped' = IF s \notin dir \/ Finished(f) THEN clipped ELSE clipped \cup {f}
        /\ UNCHANGED <<dir, doubted, recopied, intakeVars, storageVars>>

Holding == {s \in Station : producer[s].pc \in {"copying", "posting"}}

(* `copy_to_cold_storage', under a permit of the semaphore.  An error sends  *)
(* the producer to sleep.                                                    *)
StartCopy(s) ==
    LET p == producer[s]
    IN  /\ At(s, "waiting") /\ Cardinality(Holding) < Permits
        /\ IF s \in dir
             THEN /\ producer' = [producer EXCEPT ![s].pc = "copying"]
                  /\ cold' = [cold EXCEPT ![p.name] = Torn(p.item)]
                  /\ recopied' = IF cold[p.name] = Null THEN recopied
                                                        ELSE recopied \cup {p.item}
             ELSE /\ producer' = [producer EXCEPT ![s] = Asleep]
                  /\ UNCHANGED <<cold, recopied>>
        /\ UNCHANGED <<dir, doubted, clipped, intakeVars, source, faults>>

(* The copy is complete, and `forward_video_to_api' posts its name.          *)
Forward(s) ==
    LET p == producer[s]
        f == p.item
    IN  /\ p.pc = "copying"
        /\ cold' = [cold EXCEPT ![p.name] = Content(f, source[f].frames)]
        /\ \E r \in FreeSlot :                                       \* bound
             /\ call' = [call EXCEPT ![r] = Posted(f, p.name)]
             /\ producer' = [producer EXCEPT ![s].pc = "posting", ![s].slot = r]
        /\ UNCHANGED <<dir, doubted, clipped, recopied, known, rows, source, faults>>

(* Mutant of HandleAnswer: the file is removed whatever the answer is.       *)
HandleAnswerBlindly(s) ==
    LET p == producer[s]
        q == call[p.slot]
    IN  /\ At(s, "posting") /\ q.pc = "answered"
        /\ call' = [call EXCEPT ![p.slot] = NoCall]
        /\ producer' = [producer EXCEPT ![s] = NextFile(p)]
        /\ source' = [source EXCEPT ![p.item].at = "removed"]
        /\ doubted' = IF q.code = 0 THEN doubted \cup {p.item} ELSE doubted
        /\ UNCHANGED <<dir, clipped, recopied, known, rows, cold, faults>>

(* Mutant of HandleAnswer: a file the API has already counts as refused.     *)
HandleAnswerNew(s) ==
    LET p == producer[s]
        q == call[p.slot]
    IN  /\ At(s, "posting") /\ q.pc = "answered"
        /\ call' = [call EXCEPT ![p.slot] = NoCall]
        /\ producer' = [producer EXCEPT ![s] = NextFile(p)]
        /\ source' = [source EXCEPT ![p.item].at =
                        IF q.code = 201 /\ s \in dir THEN "removed" ELSE @]
        /\ doubted' = IF q.code = 0 THEN doubted \cup {p.item} ELSE doubted
        /\ UNCHANGED <<dir, clipped, recopied, known, rows, cold, faults>>

(* The file is removed if the API has taken it or has it already; after any  *)
(* other answer it stays, to be tried again in the next pass.                *)
HandleAnswer(s) ==
    LET p == producer[s]
        q == call[p.slot]
    IN  /\ At(s, "posting") /\ q.pc = "answered"
        /\ call' = [call EXCEPT ![p.slot] = NoCall]
        /\ producer' = [producer EXCEPT ![s] = NextFile(p)]
        /\ source' = [source EXCEPT ![p.item].at =
                        IF q.code \in {201, 406} /\ s \in dir THEN "removed" ELSE @]
        /\ doubted' = IF q.code = 0 THEN doubted \cup {p.item} ELSE doubted
        /\ UNCHANGED <<dir, clipped, recopied, known, rows, cold, faults>>

(* `unlink' raises: the file stays although the API has it.                  *)
UnlinkFails(s) ==
    LET p == producer[s]
    IN  /\ At(s, "posting") /\ call[p.slot].pc = "answered" /\ Fault
        /\ call[p.slot].code \in {201, 406}
        /\ call' = [call EXCEPT ![p.slot] = NoCall]
        /\ producer' = [producer EXCEPT ![s] = Asleep]
        /\ UNCHANGED <<dir, doubted, clipped, recopied, known, rows, source, cold>>

Wake(s) ==
    /\ At(s, "sleeping")
    /\ producer' = [producer EXCEPT ![s] = [Off EXCEPT !.pc = "scanning"]]
    /\ UNCHANGED <<dir, doubted, clipped, recopied, intakeVars, storageVars>>

(* The end of the requests that producers S wait for, seen from the API: it  *)
(* does not notice and goes on.                                              *)
Waiting(S) == {s \in S : producer[s].pc = "posting"}

CallsWithout(S) ==
    [r \in Slot |-> IF \E s \in Waiting(S) : producer[s].slot = r
                    THEN IF call[r].pc = "answered" THEN NoCall ELSE [call[r] EXCEPT !.awaited = FALSE]
                    ELSE call[r]]

Abandoned(S) == {producer[s].item : s \in Waiting(S)}

(* The POST takes longer than the client waits.  An answer on its way that   *)
(* arrives too late is a request that goes on after this.                    *)
PostTimesOut(s) ==
    /\ At(s, "posting") /\ call[producer[s].slot].pc # "answered" /\ Fault
    /\ call' = CallsWithout({s})
    /\ doubted' = doubted \cup Abandoned({s})
    /\ producer' = [producer EXCEPT ![s] = NextFile(@)]
    /\ UNCHANGED <<dir, clipped, recopied, known, rows, source, cold>>

(* The watcher no longer finds the directory and cancels the producer.       *)
CancelProducer(s) ==
    /\ s \notin dir /\ producer[s].pc # "off" /\ LoopFree
    /\ call' = CallsWithout({s})
    /\ doubted' = doubted \cup Abandoned({s})
    /\ producer' = [producer EXCEPT ![s] = Off]
    /\ UNCHANGED <<dir, clipped, recopied, known, rows, storageVars>>

(* The station's storage goes away and comes back.                           *)
DirVanishes(s) ==
    /\ s \in dir /\ producer[s].pc # "copying" /\ Fault
    /\ dir' = dir \ {s}
    /\ UNCHANGED <<producer, doubted, clipped, recopied, intakeVars, source, cold>>

DirReturns(s) ==
    /\ s \notin dir
    /\ dir' = dir \cup {s}
    /\ UNCHANGED <<producer, doubted, clipped, recopied, intakeVars, storageVars>>

(* The process is stopped or dies, and is started again.  A copy that was    *)
(* under way stays as it is.                                                 *)
IngestionRestarts ==
    /\ \E s \in Station : producer[s].pc # "off"
    /\ Fault
    /\ call' = CallsWithout(Station)
    /\ doubted' = doubted \cup Abandoned(Station)
    /\ producer' = [s \in Station |-> Off]
    /\ IF LoopFree THEN UNCHANGED cold
       ELSE \E s \in Station : /\ producer[s].pc = "copying"
                               /\ \E c \in Parts(producer[s].item) :
                                    cold' = [cold EXCEPT ![producer[s].name] = c]
    /\ UNCHANGED <<dir, clipped, recopied, known, rows, source>>

ProducerWork(s) ==
    \/ StartProducer(s) \/ ListDirectory(s) \/ TakeFile(s) \/ StartCopy(s)
    \/ Forward(s) \/ HandleAnswer(s) \/ Wake(s) \/ CancelProducer(s)

IngestStep ==
    \/ \E s \in Station :
         \/ ProducerWork(s) \/ UnlinkFails(s) \/ PostTimesOut(s)
         \/ DirVanishes(s) \/ DirReturns(s)
    \/ IngestionRestarts

IngestTypeOK ==
    /\ dir \in SUBSET Station
    /\ producer \in [Station -> Producer]
    /\ doubted \in SUBSET Recorded
    /\ clipped \in SUBSET Recorded
    /\ recopied \in SUBSET Recorded
=============================================================================
