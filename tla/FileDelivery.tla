---------------------------- MODULE FileDelivery ----------------------------
(***************************************************************************)
(* The way of a video file from the camera, or from a user, to the table   *)
(* video_files and through the process pool: the ingestion process, the    *)
(* requests at the API and the pool, composed.                             *)
(***************************************************************************)
EXTENDS Ingestion, VideoExecutor

vars == <<storageVars, intakeVars, ingestVars, pool>>

Init == StorageInit /\ IntakeInit /\ IngestInit /\ pool = "up"

CameraStep == \E f \in Recorded : CameraOpens(f) \/ CameraWrites(f)

Next ==
    \/ CameraStep /\ UNCHANGED <<intakeVars, ingestVars, pool>>
    \/ IngestStep /\ UNCHANGED pool
    \/ IntakeStep /\ UNCHANGED <<ingestVars, pool>>
    \/ ExecutorStep /\ UNCHANGED ingestVars

Spec == Init /\ [][Next]_vars

(* The event loops of the two processes run, and the workers work.           *)
Fairness ==
    /\ \A s \in Station : WF_vars(ProducerWork(s) /\ UNCHANGED pool)
    /\ \A r \in Slot : WF_vars(CallWork(r) /\ UNCHANGED <<ingestVars, pool>>)
    /\ WF_vars(JobWork /\ UNCHANGED ingestVars)

FairSpec == Spec /\ Fairness
-----------------------------------------------------------------------------
TypeOK ==
    /\ StorageTypeOK /\ IntakeTypeOK /\ IngestTypeOK
    /\ pool \in {"up", "broken"}

InTable == {rows[i].rec : i \in DOMAIN rows}

(* A recording may still be registered while its file is in the directory or *)
(* a request about it is open, an upload as long as it is not there.         *)
Open(f) == \E r \in Slot : call[r].rec = f /\ call[r].pc # "answered"

Accepted == Uploaded \cup {f \in Recorded : source[f].at # "nowhere"}

Pending ==
    {f \in Accepted : Open(f) \/ IF f \in Uploaded THEN f \notin InTable
                                                   ELSE source[f].at = "queue"}

(* What this path promises is what the way of a detection promises: see      *)
(* Delivery.  A file is registered once, unless a POST about it went         *)
(* unanswered or it was taken before it was finished.                        *)
Promise == INSTANCE Delivery WITH
    Item     <- Recording,
    accepted <- Accepted,
    pending  <- Pending,
    doubted  <- doubted \cup clipped,
    log      <- [i \in DOMAIN rows |-> {rows[i].rec}]

KeepsPromise == Promise!Spec

(* A file the camera had finished when it was taken is only removed when     *)
(* the whole of it is registered, under its hash, and in cold storage,       *)
(* whatever timed out, failed or was cancelled on the way.                   *)
RemovedOnlyWhenStored ==
    \A f \in Recorded : source[f].at = "removed" /\ f \notin clipped =>
        /\ Whole(f) \in Hashes
        /\ cold[Whole(f)] = Whole(f)

(* The copy is made "so that the file is stable": what is recognised of a    *)
(* file is what is in it, and nothing but a crash or a dying worker keeps it *)
(* from being recognised, unless it was copied a second time or taken before *)
(* it was finished.                                                          *)
Large(f) ==
    {p \in UNION {{n} \X DOMAIN Clip[f][n].markers : n \in 1 .. Len(Clip[f])} :
        Clip[f][p[1]].area > MinArea /\ Clip[f][p[1]].markers[p[2]].w >= MinSide}

RecognisedWhole ==
    \A j \in DOMAIN rows : rows[j].rec \notin recopied \cup clipped =>
        /\ rows[j].stage = "failed" => faults > 0
        /\ rows[j].stage = "done" =>
             LET f == rows[j].rec
                 found == rows[j].found
             IN  /\ Len(found) = Cardinality(Large(f))
                 /\ \A a, b \in DOMAIN found : a < b => found[a].frame <= found[b].frame
                 /\ \A p \in Large(f) : \E a \in DOMAIN found :
                      /\ found[a].frame = p[1] - 1
                      /\ found[a].id = Clip[f][p[1]].markers[p[2]].id

(* A file in the directory of a registered station is taken over in the end, *)
(* through timeouts, crashes and failing requests, unless the directory goes *)
(* away.                                                                     *)
FilesTakenOver ==
    \A f \in Recorded :
        source[f].at = "queue" /\ Home[f] \in known
            ~> source[f].at = "removed" \/ Home[f] \notin dir
=============================================================================
