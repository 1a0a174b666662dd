----------------------------- MODULE VideoIntake -----------------------------
(***************************************************************************)
(* POST /v1/videos/handle and /v1/videos/upload (src/router/v1/video.py):  *)
(* a request is one transaction that hashes the file, looks the hash up,   *)
(* and inserts a row of video_files, whose content_hash is unique.  The    *)
(* session dependency commits before the response is sent and before the   *)
(* background task starts.                                                 *)
(*                                                                         *)
(* A request goes on when its caller is gone.                              *)
(***************************************************************************)
EXTENDS Recordings

CONSTANT MaxOpen   \* bound on the requests that are open at a time

Slot == 1 .. MaxOpen

VARIABLES
    known,   \* the codes of the table stations
    rows,    \* the committed rows of video_files, in commit order
    call     \* per slot: the state of an open request

intakeVars == <<known, rows, call>>

(* `name' is the file the row's storage_uri names.  `stage' is how far the   *)
(* processing of the row got, `found' the events it stored.                  *)
Row == [rec : Recording, hash : Contents, name : Contents,
        stage : {"queued", "submitted", "done", "failed", "lost"},
        found : Seq([frame : Nat, id : Nat, inside : BOOLEAN])]

(* `hash' is what the request has read.  Code 0 is a broken connection.      *)
Call == [pc : {"free", "arrived", "hashed", "inserted", "answered"},
         rec : Recording \cup {0}, name : Contents \cup {Null},
         hash : Contents \cup {Null}, awaited : BOOLEAN,
         code : {0, 201, 406, 422, 500}]

NoCall == [pc |-> "free", rec |-> 0, name |-> Null, hash |-> Null,
           awaited |-> FALSE, code |-> 0]

IntakeInit ==
    /\ known \in SUBSET Station
    /\ rows = <<>>
    /\ call = [r \in Slot |-> NoCall]

FreeSlot == {r \in Slot : call[r].pc = "free" /\ \A o \in 1 .. r - 1 : call[o].pc # "free"}

Posted(f, name) == [NoCall EXCEPT !.pc = "arrived", !.rec = f, !.name = name, !.awaited = TRUE]

(* A request is answered.  Nobody hears the answer to an abandoned one; a    *)
(* user sees it and that is all.                                             *)
Answered(q, code) ==
    IF q.awaited /\ q.rec \in Recorded
      THEN [NoCall EXCEPT !.pc = "answered", !.awaited = TRUE, !.rec = q.rec, !.code = code]
      ELSE NoCall

Answer(r, code) == call' = [call EXCEPT ![r] = Answered(@, code)]

Hashes == {rows[i].hash : i \in DOMAIN rows}

-----------------------------------------------------------------------------
(* `upload_video': the body is written to a temporary file of its own.       *)
Upload(f) ==
    /\ \A i \in DOMAIN rows : rows[i].rec # f                        \* bound
    /\ \E r \in FreeSlot : call' = [call EXCEPT ![r] = Posted(f, Whole(f))]   \* bound
    /\ UNCHANGED <<known, rows, storageVars>>

(* The checks of the endpoint and of `create_and_commit', up to the look-up  *)
(* of the hash among the rows committed by now.  An upload has a file nobody *)
(* else writes to.                                                           *)
HashFile(r) ==
    LET q == call[r]
    IN  /\ q.pc = "arrived"
        /\ IF q.rec \in Recorded /\ Home[q.rec] \notin known
             THEN Answer(r, 422)
             ELSE \E c \in IF q.rec \in Uploaded THEN {Whole(q.rec)} ELSE Readings(q.name) :
                    IF c \in Hashes THEN Answer(r, 406)
                    ELSE call' = [call EXCEPT ![r].pc = "hashed", ![r].hash = c]
        /\ UNCHANGED <<known, rows, storageVars>>

(* Mutant of InsertRow: content_hash is not unique.                          *)
InsertRowAgain(r) ==
    LET q == call[r]
    IN  /\ q.pc = "hashed"
        /\ call' = [call EXCEPT ![r].pc = "inserted"]
        /\ cold' = IF q.rec \in Uploaded /\ cold[q.name] = Null
                   THEN [cold EXCEPT ![q.name] = q.hash] ELSE cold
        /\ UNCHANGED <<known, rows, source, faults>>

(* The row is flushed.  It waits for the commit of an equal hash, and when   *)
(* that is there it violates the unique content_hash.  An upload then moves  *)
(* its file to its final name, unless a file of that name exists.            *)
InsertRow(r) ==
    LET q == call[r]
    IN  /\ q.pc = "hashed"
        /\ \A o \in Slot : call[o].pc = "inserted" => call[o].hash # q.hash
        /\ IF q.hash \in Hashes
             THEN Answer(r, 500) /\ UNCHANGED cold
             ELSE /\ call' = [call EXCEPT ![r].pc = "inserted"]
                  /\ cold' = IF q.rec \in Uploaded /\ cold[q.name] = Null
                             THEN [cold EXCEPT ![q.name] = q.hash] ELSE cold
        /\ UNCHANGED <<known, rows, source, faults>>

CommitRow(r) ==
    LET q == call[r]
    IN  /\ q.pc = "inserted"
        /\ rows' = Append(rows, [rec |-> q.rec, hash |-> q.hash, name |-> q.name,
                                 stage |-> "queued", found |-> <<>>])
        /\ Answer(r, 201)
        /\ UNCHANGED <<known, storageVars>>

(* A statement or the commit fails and the transaction is rolled back.       *)
CallFails(r) ==
    /\ call[r].pc \in {"arrived", "hashed", "inserted"} /\ Fault
    /\ Answer(r, 500)
    /\ UNCHANGED <<known, rows, source, cold>>

RegisterStation(s) ==
    /\ s \notin known
    /\ known' = known \cup {s}
    /\ UNCHANGED <<rows, call, storageVars>>

CallWork(r) == HashFile(r) \/ InsertRow(r) \/ CommitRow(r)

IntakeStep ==
    \/ \E f \in Uploaded : Upload(f)
    \/ \E r \in Slot : CallWork(r) \/ CallFails(r)
    \/ \E s \in Station : RegisterStation(s)

IntakeTypeOK ==
    /\ known \in SUBSET Station
    /\ rows \in Seq(Row)
    /\ call \in [Slot -> Call]
=============================================================================
