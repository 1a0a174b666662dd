------------------------ MODULE FileDelivery_proofs ------------------------
(***************************************************************************)
(* What TLAPS proves about FileDelivery for any recordings, clips, stations*)
(* and bounds: no finished file is lost, the path implements Delivery, and *)
(* what is stored for a file is what there is to find in it.               *)
(*                                                                         *)
(* A step is one of five kinds for the invariant FileInv: a producer that  *)
(* waits for no request moves (QuietProducer), one posts (ForwardKeeps),   *)
(* some let go of their requests (Released), the API moves or answers      *)
(* requests (CallsMove), or only stages of rows change (StageKeeps).  For  *)
(* what is in the files, WholeInv, a step keeps what is settled in cold    *)
(* storage (Settled), and requests and rows come from somewhere            *)
(* (HandsFrom, RowsFrom).                                                  *)
(***************************************************************************)
EXTENDS FileDelivery, Ordered_proofs, TLAPS

(* The contents a recording's file can have, and the whole of it, which      *)
(* belongs to no other recording.                                            *)
LEMMA ContentsOf ==
  ASSUME NEW f \in Recording, NEW n \in 0 .. Len(Clip[f])
  PROVE  Content(f, n) \in Contents
  BY DEF Contents

LEMMA ContentParts ==
  ASSUME NEW c \in Contents
  PROVE  /\ c.rec \in Recording \cup {0} /\ c.frames \in Nat
         /\ c # Null /\ c.frames # -1
<1>1. PICK f \in Recording : \E n \in 0 .. Len(Clip[f]) : c = Content(f, n)
  BY DEF Contents
<1>2. PICK n \in 0 .. Len(Clip[f]) : c = Content(f, n)
  BY <1>1
<1>3. c.rec \in Recording \cup {0} /\ c.frames = n
  BY <1>2 DEF Content
<1>4. n \in Nat
  BY <1>2
<1> QED
  BY <1>3, <1>4, NullAssumption

LEMMA WholeContent ==
  /\ \A f \in Recording : /\ Whole(f) \in Contents /\ Whole(f) # Null
                          /\ Whole(f).rec = f /\ Whole(f).frames = Len(Clip[f])
                          /\ Whole(f).frames # -1 /\ f # 0
  /\ \A f, g \in Recording : Whole(f) = Whole(g) => f = g
<1>1. ASSUME NEW f \in Recording
      PROVE  /\ Whole(f) \in Contents /\ Whole(f) # Null
             /\ Whole(f).rec = f /\ Whole(f).frames = Len(Clip[f])
             /\ Whole(f).frames # -1 /\ f # 0
  <2>1. Len(Clip[f]) \in Nat \ {0} /\ f \in Nat \ {0}
    BY RecordingAssumption
  <2>2. Whole(f) \in Contents
    BY <2>1, ContentsOf DEF Whole
  <2>3. Whole(f).rec = f /\ Whole(f).frames = Len(Clip[f])
    BY <2>1 DEF Whole, Content
  <2> QED
    BY <2>1, <2>2, <2>3, ContentParts
<1> QED
  BY <1>1

-----------------------------------------------------------------------------
(* The shape of the state, as far as it is needed: what a row found in its   *)
(* clip is left open.                                                        *)
RowsShape ==
  /\ rows \in Seq({rows[i] : i \in DOMAIN rows})
  /\ \A i \in DOMAIN rows :
       /\ {"rec", "hash", "stage", "found"} \subseteq DOMAIN rows[i]
       /\ rows[i].rec \in Recording /\ rows[i].hash \in Contents

Torns == {Torn(f) : f \in Recorded}

Shape ==
  /\ source \in [Recorded -> Source]
  /\ \A f \in Recorded : source[f].frames <= Len(Clip[f])
  /\ cold \in [Contents -> Contents \cup Torns \cup {Null}]
  /\ call \in [Slot -> Call]
  /\ producer \in [Station -> Producer]
  /\ doubted \in SUBSET Recorded /\ clipped \in SUBSET Recorded
  /\ RowsShape

(* A producer works on files of its own directory that are still there.      *)
Busy == {"waiting", "copying", "posting"}

ProducersInv ==
  \A s \in Station :
    LET p == producer[s]
    IN  /\ \A f \in p.left : Home[f] = s /\ source[f].at = "queue"
        /\ p.pc \in Busy =>
             /\ p.item \in Recorded \ p.left /\ Home[p.item] = s
             /\ source[p.item].at = "queue"
             /\ p.name \in Contents /\ p.name.rec \in {0, p.item}
             /\ p.item \notin clipped => Finished(p.item) /\ p.name = Whole(p.item)

(* A request nobody waits for is about a doubted recording.                  *)
CallsInv ==
  \A r \in Slot :
    LET q == call[r]
    IN  /\ q.pc = "free" => q.rec = 0
        /\ q.pc # "free" => q.rec \in Recording
        /\ q.pc \in {"arrived", "hashed", "inserted"} => q.name \in Contents
        /\ q.pc = "arrived" /\ q.rec \in Recorded => cold[q.name] # Null
        /\ q.pc \in {"hashed", "inserted"} => q.hash \in Contents
        /\ q.pc \in {"hashed", "inserted"} /\ q.rec \in Uploaded => q.hash = Whole(q.rec)
        /\ q.rec \in Recorded =>
             \/ q.rec \in doubted
             \/ producer[Home[q.rec]].pc = "posting" /\ producer[Home[q.rec]].slot = r

(* What a producer waits for is the registration of the whole of its file,   *)
(* if the file was finished.                                                 *)
PostingInv ==
  \A s \in Station : producer[s].pc = "posting" =>
    LET f == producer[s].item
        q == call[producer[s].slot]
    IN  /\ producer[s].slot \in Slot
        /\ q.pc # "free" /\ q.awaited /\ q.rec = f
        /\ f \notin clipped =>
             /\ cold[Whole(f)] = Whole(f)
             /\ q.pc = "arrived" => q.name = Whole(f)
             /\ q.pc \in {"hashed", "inserted"} => q.hash = Whole(f)
             /\ q.pc = "answered" /\ q.code \in {201, 406} => Whole(f) \in Hashes

(* What the unique constraint does: a flushed row has a hash of its own.     *)
UniqueInv ==
  \A r \in Slot : call[r].pc = "inserted" =>
    /\ call[r].hash \notin Hashes
    /\ \A o \in Slot \ {r} : call[o].pc = "inserted" => call[o].hash # call[r].hash

(* A recording that is neither doubted nor clipped is registered whole.      *)
RowsInv ==
  \A i \in DOMAIN rows :
    rows[i].rec \notin doubted \cup clipped => rows[i].hash = Whole(rows[i].rec)

FileInv ==
  /\ Shape /\ ProducersInv /\ CallsInv /\ PostingInv
  /\ UniqueInv /\ RowsInv /\ RemovedOnlyWhenStored

LEMMA InitFile == Init => FileInv
<1> SUFFICES ASSUME Init PROVE FileInv
  OBVIOUS
<1> USE DEF Init, StorageInit, IntakeInit, IngestInit
<1>1. \A f \in Recorded : Len(Clip[f]) \in Nat
  BY RecordingAssumption DEF Recording
<1>2. source \in [Recorded -> Source] /\ \A f \in Recorded : source[f].frames <= Len(Clip[f])
  BY <1>1 DEF Source
<1>3. call \in [Slot -> Call]
  BY DEF NoCall, Call
<1>4. producer \in [Station -> Producer]
  BY DEF Off, Producer
<1>5. RowsShape
  BY DEF RowsShape
<1>6. Shape
  BY <1>2, <1>3, <1>4, <1>5 DEF Shape
<1>7. ProducersInv /\ PostingInv
  BY DEF ProducersInv, PostingInv, Off, Busy
<1>8. CallsInv /\ UniqueInv
  BY RecordingAssumption DEF CallsInv, UniqueInv, NoCall, Recording
<1>9. RowsInv /\ RemovedOnlyWhenStored
  BY DEF RowsInv, RemovedOnlyWhenStored
<1> QED
  BY <1>6, <1>7, <1>8, <1>9 DEF FileInv

-----------------------------------------------------------------------------
(* What a step of one producer cannot touch: the name another one copies to  *)
(* is not that of a finished recording that is not its own.                  *)
LEMMA NamesApart ==
  ASSUME FileInv, NEW s \in Station, producer[s].pc \in Busy,
         NEW f \in Recording, f # producer[s].item
  PROVE  Whole(f) # producer[s].name
<1>1. producer[s].name.rec \in {0, producer[s].item}
  BY DEF FileInv, ProducersInv
<1> QED
  BY <1>1, WholeContent

(* Two producers wait for different requests.                                *)
LEMMA SlotsApart ==
  ASSUME FileInv, NEW s \in Station, NEW t \in Station, s # t,
         producer[s].pc = "posting", producer[t].pc = "posting"
  PROVE  producer[s].slot # producer[t].slot
<1>1. Home[producer[s].item] = s /\ Home[producer[t].item] = t
  BY DEF FileInv, ProducersInv, Busy
<1>2. call[producer[s].slot].rec = producer[s].item /\ call[producer[t].slot].rec = producer[t].item
  BY DEF FileInv, PostingInv
<1> QED
  BY <1>1, <1>2

(* What a producer has in hand is a recording of the camera.                 *)
LEMMA ItemRecorded ==
  ASSUME FileInv, NEW s \in Station, producer[s].pc \in Busy
  PROVE  producer[s].item \in Recorded /\ producer[s].item \in Recording
  BY DEF FileInv, ProducersInv, Recording

LEMMA CameraKeeps ==
  ASSUME FileInv, CameraStep, UNCHANGED <<intakeVars, ingestVars, pool>>
  PROVE  FileInv'
<1> USE DEF FileInv
<1>1. UNCHANGED <<cold, call, rows, producer, doubted, clipped>>
  BY DEF CameraStep, CameraOpens, CameraWrites, intakeVars, ingestVars
<1>2. PICK f \in Recorded : CameraOpens(f) \/ CameraWrites(f)
  BY DEF CameraStep
<1>3. /\ source[f] \in Source /\ source \in [Recorded -> Source]
      /\ source[f].frames <= Len(Clip[f]) /\ Len(Clip[f]) \in Nat /\ source[f].frames \in Nat
  BY RecordingAssumption DEF Shape, Source, Recording
<1>4. /\ source' \in [Recorded -> Source]
      /\ \A g \in Recorded : g # f => source'[g] = source[g]
      /\ source'[f].frames <= Len(Clip[f])
      /\ source[f].at = "queue" => source'[f].at = "queue"
      /\ source'[f].at # "removed"
      /\ source[f].at = "queue" /\ Finished(f) => Finished(f)'
  <2>1. CASE CameraOpens(f)
    BY <1>3, <2>1 DEF CameraOpens, Source
  <2>2. CASE CameraWrites(f)
    <3>1. source' = [source EXCEPT ![f].frames = @ + 1] /\ source[f].frames < Len(Clip[f])
          /\ source[f].at = "queue"
      BY <2>2 DEF CameraWrites
    <3>2. [source[f] EXCEPT !.frames = @ + 1] \in Source
      BY <1>3 DEF Source
    <3>3. source'[f] = [source[f] EXCEPT !.frames = @ + 1]
      BY <1>3, <3>1
    <3>4. source'[f].frames = source[f].frames + 1 /\ source'[f].at = source[f].at
      BY <1>3, <3>3 DEF Source
    <3> QED
      BY <1>3, <3>1, <3>2, <3>3, <3>4 DEF Finished
  <2> QED
    BY <1>2, <2>1, <2>2
<1>5. /\ \A g \in Recorded : source[g].at = "queue" => source'[g].at = "queue"
      /\ \A g \in Recorded : source[g].at = "queue" /\ Finished(g) => Finished(g)'
      /\ \A g \in Recorded : source'[g].at = "removed" => source[g].at = "removed"
  BY <1>4 DEF Finished
<1>6. Shape'
  BY <1>1, <1>4 DEF Shape, RowsShape
<1>7. ProducersInv'
  <2>1. \A s \in Station : producer[s].left \subseteq Recorded
    BY DEF Shape, Producer
  <2> QED
    BY <1>1, <1>5, <2>1 DEF ProducersInv
<1>8. CallsInv' /\ PostingInv' /\ UniqueInv' /\ RowsInv'
  BY <1>1 DEF CallsInv, PostingInv, UniqueInv, RowsInv, Hashes
<1>9. RemovedOnlyWhenStored'
  BY <1>1, <1>5 DEF RemovedOnlyWhenStored, Hashes
<1> QED
  BY <1>6, <1>7, <1>8, <1>9

-----------------------------------------------------------------------------
(* A producer that does not wait for a request, and does not afterwards,     *)
(* only has to keep to its own files.                                        *)
LEMMA QuietProducer ==
  ASSUME FileInv, NEW s \in Station, NEW p \in Producer,
         producer' = [producer EXCEPT ![s] = p],
         producer[s].pc # "posting", p.pc # "posting",
         \A f \in p.left : Home[f] = s /\ source[f].at = "queue",
         p.pc \in Busy =>
           /\ p.item \in Recorded \ p.left /\ Home[p.item] = s
           /\ source[p.item].at = "queue"
           /\ p.name \in Contents /\ p.name.rec \in {0, p.item}
           /\ p.item \notin clipped' => Finished(p.item) /\ p.name = Whole(p.item),
         UNCHANGED <<source, call, rows, doubted>>,
         clipped \subseteq clipped', clipped' \in SUBSET Recorded,
         cold' \in [Contents -> Contents \cup Torns \cup {Null}],
         \A c \in Contents : cold'[c] # cold[c] =>
           producer[s].pc \in Busy /\ c = producer[s].name /\ cold'[c] # Null
  PROVE  FileInv'
<1> USE DEF FileInv
<1>1. producer' \in [Station -> Producer] /\ producer'[s] = p
      /\ \A t \in Station : t # s => producer'[t] = producer[t]
  BY DEF Shape
<1>2. \A f \in Recorded : Whole(f) \in Contents
  BY WholeContent DEF Recording
<1>3. \A f \in Recorded :
        (producer[s].pc \in Busy => f # producer[s].item) => cold'[Whole(f)] = cold[Whole(f)]
  BY <1>2, NamesApart DEF Recording
<1>4. Shape'
  BY <1>1 DEF Shape, RowsShape
<1>5. ProducersInv'
  <2>1. ASSUME NEW t \in Station, t # s PROVE producer'[t] = producer[t]
    BY <1>1, <2>1
  <2> QED
    BY <1>1, <2>1 DEF ProducersInv, Finished
<1>6. CallsInv'
  <2>1. \A c \in Contents : cold[c] # Null => cold'[c] # Null
    OBVIOUS
  <2>2. \A r \in Slot : call[r].rec \in Recorded =>
          \/ call[r].rec \in doubted
          \/ producer'[Home[call[r].rec]].pc = "posting" /\ producer'[Home[call[r].rec]].slot = r
    <3>1. \A f \in Recorded : Home[f] \in Station
      BY RecordingAssumption
    <3> QED
      BY <1>1, <3>1 DEF CallsInv
  <2>3. \A r \in Slot : call[r].pc = "arrived" /\ call[r].rec \in Recorded => cold'[call[r].name] # Null
    BY <2>1 DEF CallsInv
  <2> QED
    BY <2>2, <2>3 DEF CallsInv
<1>7. PostingInv'
  <2> SUFFICES ASSUME NEW t \in Station, producer'[t].pc = "posting"
               PROVE  LET f == producer[t].item
                          q == call[producer[t].slot]
                      IN  /\ producer[t].slot \in Slot
                          /\ q.pc # "free" /\ q.awaited /\ q.rec = f
                          /\ f \notin clipped' =>
                               /\ cold'[Whole(f)] = Whole(f)
                               /\ q.pc = "arrived" => q.name = Whole(f)
                               /\ q.pc \in {"hashed", "inserted"} => q.hash = Whole(f)
                               /\ q.pc = "answered" /\ q.code \in {201, 406} => Whole(f) \in Hashes
    BY <1>1 DEF PostingInv, Hashes
  <2>1. t # s /\ producer[t].pc = "posting"
    BY <1>1
  <2>2. producer[t].item \in Recorded /\ Home[producer[t].item] = t
    BY <2>1 DEF ProducersInv, Busy
  <2>3. producer[s].pc \in Busy => Home[producer[s].item] = s
    BY DEF ProducersInv
  <2>4. cold'[Whole(producer[t].item)] = cold[Whole(producer[t].item)]
    BY <1>3, <2>1, <2>2, <2>3
  <2> QED
    BY <2>1, <2>4 DEF PostingInv
<1>8. UniqueInv' /\ RowsInv'
  BY DEF UniqueInv, RowsInv, Hashes
<1>9. RemovedOnlyWhenStored'
  <2> SUFFICES ASSUME NEW f \in Recorded, source[f].at = "removed", f \notin clipped'
               PROVE  Whole(f) \in Hashes /\ cold'[Whole(f)] = Whole(f)
    BY DEF RemovedOnlyWhenStored, Hashes
  <2>1. producer[s].pc \in Busy => f # producer[s].item
    BY DEF ProducersInv
  <2> QED
    BY <1>3, <2>1 DEF RemovedOnlyWhenStored
<1> QED
  BY <1>4, <1>5, <1>6, <1>7, <1>8, <1>9

LEMMA Listing ==
  ASSUME FileInv, NEW s \in Station, StartProducer(s) \/ ListDirectory(s) \/ Wake(s)
  PROVE  FileInv'
<1>1. producer \in [Station -> Producer] /\ producer[s] \in Producer
  BY DEF FileInv, Shape
<1>2. UNCHANGED <<source, cold, call, rows, doubted, clipped>>
  BY DEF StartProducer, ListDirectory, Wake, intakeVars, storageVars
<1>3. PICK p \in Producer :
        /\ producer' = [producer EXCEPT ![s] = p]
        /\ producer[s].pc \notin Busy /\ p.pc \notin Busy
        /\ \A f \in p.left : Home[f] = s /\ source[f].at = "queue"
  <2>1. CASE StartProducer(s) \/ Wake(s)
    <3>1. producer' = [producer EXCEPT ![s] = [Off EXCEPT !.pc = "scanning"]]
      BY <2>1 DEF StartProducer, Wake
    <3>2. /\ [Off EXCEPT !.pc = "scanning"] \in Producer
          /\ [Off EXCEPT !.pc = "scanning"].left = {}
          /\ [Off EXCEPT !.pc = "scanning"].pc \notin Busy
      BY DEF Off, Producer, Busy
    <3> QED
      BY <2>1, <3>1, <3>2 DEF StartProducer, Wake, At, Busy
  <2>2. CASE ListDirectory(s) /\ s \in dir
    <3> DEFINE files == {f \in Recorded : Home[f] = s /\ source[f].at = "queue"}
               p == [producer[s] EXCEPT !.left = files]
    <3>1. p \in Producer /\ p.left = files /\ p.pc = producer[s].pc
      BY <1>1 DEF Producer
    <3>2. producer' = [producer EXCEPT ![s] = p]
      BY <2>2 DEF ListDirectory
    <3> QED
      BY <2>2, <3>1, <3>2 DEF ListDirectory, At, Busy
  <2>3. CASE ListDirectory(s) /\ s \notin dir
    <3>1. Asleep \in Producer /\ Asleep.left = {} /\ Asleep.pc \notin Busy
      BY DEF Asleep, Off, Producer, Busy
    <3> QED
      BY <2>3, <3>1 DEF ListDirectory, At, Busy
  <2> QED
    BY <2>1, <2>2, <2>3
<1> QED
  BY <1>2, <1>3, QuietProducer DEF FileInv, Shape, Busy

LEMMA TakeFileKeeps ==
  ASSUME FileInv, NEW s \in Station, TakeFile(s)
  PROVE  FileInv'
<1>1. producer \in [Station -> Producer] /\ producer[s] \in Producer
  BY DEF FileInv, Shape
<1>2. /\ UNCHANGED <<source, cold, call, rows, doubted>>
      /\ producer[s].pc = "scanning"
  BY DEF TakeFile, At, intakeVars, storageVars
<1>3. PICK f \in producer[s].left :
        /\ producer' = [producer EXCEPT ![s] =
              IF s \notin dir THEN NextFile([producer[s] EXCEPT !.left = producer[s].left \ {f}])
              ELSE [producer[s] EXCEPT !.pc = "waiting", !.left = producer[s].left \ {f},
                                       !.item = f, !.name = Content(f, source[f].frames)]]
        /\ clipped' = IF s \notin dir \/ Finished(f) THEN clipped ELSE clipped \cup {f}
  BY DEF TakeFile
<1>4. /\ f \in Recorded /\ f \in Recording /\ Home[f] = s /\ source[f].at = "queue"
      /\ \A g \in producer[s].left : Home[g] = s /\ source[g].at = "queue"
      /\ source[f].frames \in 0 .. Len(Clip[f])
      /\ clipped \subseteq clipped' /\ clipped' \in SUBSET Recorded
  BY <1>1, <1>3, RecordingAssumption DEF FileInv, Shape, ProducersInv, Producer, Recording, Source
<1>5. CASE s \notin dir
  <2> DEFINE p == NextFile([producer[s] EXCEPT !.left = producer[s].left \ {f}])
  <2>1. p \in Producer /\ p.left = producer[s].left \ {f} /\ p.pc = "scanning"
    BY <1>1 DEF NextFile, Off, Producer
  <2>2. producer' = [producer EXCEPT ![s] = p]
    BY <1>3, <1>5
  <2> HIDE DEF p
  <2> QED
    BY <1>2, <1>4, <2>1, <2>2, QuietProducer DEF FileInv, Shape, Busy
<1>6. CASE s \in dir
  <2> DEFINE p == [producer[s] EXCEPT !.pc = "waiting", !.left = producer[s].left \ {f},
                                      !.item = f, !.name = Content(f, source[f].frames)]
  <2>1. Content(f, source[f].frames) \in Contents
    BY <1>4, ContentsOf
  <2>2. /\ p \in Producer /\ p.left = producer[s].left \ {f} /\ p.pc = "waiting"
        /\ p.item = f /\ p.name = Content(f, source[f].frames)
    BY <1>1, <1>4, <2>1 DEF Producer
  <2>3. producer' = [producer EXCEPT ![s] = p]
    BY <1>3, <1>6
  <2>4. p.name.rec \in {0, f}
    BY <2>2 DEF Content
  <2>5. f \notin clipped' => Finished(f) /\ p.name = Whole(f)
    BY <1>3, <1>6, <2>2 DEF Finished, Whole
  <2>6. /\ p.item \in Recorded \ p.left /\ Home[p.item] = s
        /\ source[p.item].at = "queue"
        /\ p.name \in Contents /\ p.name.rec \in {0, p.item}
        /\ p.item \notin clipped' => Finished(p.item) /\ p.name = Whole(p.item)
    BY <1>4, <2>1, <2>2, <2>4, <2>5
  <2>7. /\ \A g \in p.left : Home[g] = s /\ source[g].at = "queue"
        /\ cold' \in [Contents -> Contents \cup Torns \cup {Null}]
    BY <1>2, <1>4, <2>2 DEF FileInv, Shape
  <2>8. p \in Producer /\ p.pc = "waiting"
    BY <2>2
  <2> HIDE DEF p
  <2> QED
    BY <1>2, <1>4, <2>3, <2>6, <2>7, <2>8, QuietProducer
<1> QED
  BY <1>5, <1>6

LEMMA StartCopyKeeps ==
  ASSUME FileInv, NEW s \in Station, StartCopy(s)
  PROVE  FileInv'
<1>1. producer \in [Station -> Producer] /\ producer[s] \in Producer /\ producer[s].pc = "waiting"
  BY DEF FileInv, Shape, StartCopy, At
<1>2. /\ UNCHANGED <<source, call, rows, doubted, clipped>>
      /\ \A f \in producer[s].left : Home[f] = s /\ source[f].at = "queue"
      /\ cold \in [Contents -> Contents \cup Torns \cup {Null}] /\ clipped \in SUBSET Recorded
  BY DEF FileInv, Shape, ProducersInv, StartCopy, intakeVars
<1>3. CASE s \in dir
  <2> DEFINE p == [producer[s] EXCEPT !.pc = "copying"]
             n == producer[s].name
             i == producer[s].item
  <2>1. /\ p \in Producer /\ p.left = producer[s].left /\ p.pc = "copying"
        /\ p.item = i /\ p.name = n
    BY <1>1 DEF Producer
  <2>2. producer' = [producer EXCEPT ![s] = p] /\ cold' = [cold EXCEPT ![n] = Torn(i)]
    BY <1>3 DEF StartCopy
  <2>3. /\ i \in Recorded \ producer[s].left /\ Home[i] = s /\ source[i].at = "queue"
        /\ n \in Contents /\ n.rec \in {0, i}
        /\ i \notin clipped => Finished(i) /\ n = Whole(i)
    BY <1>1 DEF FileInv, ProducersInv, Busy
  <2>4. Torn(i) \in Torns /\ Torn(i) # Null
    BY <2>3, NullAssumption DEF Torns
  <2>5. /\ cold' \in [Contents -> Contents \cup Torns \cup {Null}]
        /\ \A c \in Contents : cold'[c] # cold[c] =>
             c = n /\ cold'[c] # Null
    BY <1>2, <2>2, <2>3, <2>4
  <2>6. /\ p.item \in Recorded \ p.left /\ Home[p.item] = s
        /\ source[p.item].at = "queue"
        /\ p.name \in Contents /\ p.name.rec \in {0, p.item}
        /\ p.item \notin clipped' => Finished(p.item) /\ p.name = Whole(p.item)
    BY <1>2, <2>1, <2>3
  <2>7. p \in Producer /\ p.pc = "copying" /\ \A g \in p.left : Home[g] = s /\ source[g].at = "queue"
    BY <1>2, <2>1
  <2>8. producer[s].pc \in Busy /\ n = producer[s].name
    BY <1>1 DEF Busy
  <2>9. producer' = [producer EXCEPT ![s] = p]
    BY <2>2
  <2> HIDE DEF p, n
  <2> QED
    BY <1>1, <1>2, <2>5, <2>6, <2>7, <2>8, <2>9, QuietProducer
<1>4. CASE s \notin dir
  <2>1. Asleep \in Producer /\ Asleep.left = {} /\ Asleep.pc = "sleeping"
    BY DEF Asleep, Off, Producer
  <2>2. producer' = [producer EXCEPT ![s] = Asleep] /\ cold' = cold
    BY <1>4 DEF StartCopy
  <2> QED
    BY <1>1, <1>2, <2>1, <2>2, QuietProducer DEF Busy
<1> QED
  BY <1>3, <1>4

-----------------------------------------------------------------------------
(* The copy is complete before the API hears of it.                          *)
LEMMA ForwardKeeps ==
  ASSUME FileInv, NEW s \in Station, Forward(s)
  PROVE  FileInv'
<1> DEFINE i == producer[s].item
           n == producer[s].name
           w == Content(i, source[i].frames)
<1> USE DEF FileInv
<1>1. /\ producer \in [Station -> Producer] /\ producer[s] \in Producer /\ producer[s].pc = "copying"
      /\ call \in [Slot -> Call]
      /\ cold \in [Contents -> Contents \cup Torns \cup {Null}]
  BY DEF Shape, Forward
<1>2. PICK r \in FreeSlot :
        /\ call' = [call EXCEPT ![r] = Posted(i, n)]
        /\ producer' = [producer EXCEPT ![s].pc = "posting", ![s].slot = r]
  BY DEF Forward
<1>3. UNCHANGED <<source, rows, doubted, clipped>> /\ cold' = [cold EXCEPT ![n] = w]
  BY DEF Forward
<1>4. r \in Slot /\ call[r].pc = "free"
  BY DEF FreeSlot
<1>5. /\ i \in Recorded \ producer[s].left /\ Home[i] = s /\ source[i].at = "queue"
      /\ n \in Contents /\ n.rec \in {0, i}
      /\ i \notin clipped => Finished(i) /\ n = Whole(i)
      /\ \A f \in producer[s].left : Home[f] = s /\ source[f].at = "queue"
  BY <1>1 DEF ProducersInv, Busy
<1>6. /\ i \in Recording /\ source[i].frames \in 0 .. Len(Clip[i])
      /\ \A f \in Recorded : f \in Recording /\ Home[f] \in Station /\ Whole(f) \in Contents
  BY <1>5, RecordingAssumption, WholeContent DEF Shape, Recording, Source
<1>7. w \in Contents /\ w # Null /\ (i \notin clipped => w = Whole(i))
  BY <1>5, <1>6, ContentsOf, ContentParts DEF Finished, Whole
<1>8. /\ Posted(i, n) \in Call
      /\ Posted(i, n).pc = "arrived" /\ Posted(i, n).rec = i /\ Posted(i, n).name = n
      /\ Posted(i, n).awaited
  BY <1>5, <1>6 DEF Posted, NoCall, Call
<1>9. /\ call' \in [Slot -> Call] /\ call'[r] = Posted(i, n)
      /\ \A o \in Slot : o # r => call'[o] = call[o]
  BY <1>1, <1>2, <1>4, <1>8
<1>10. /\ producer' \in [Station -> Producer]
       /\ producer'[s].pc = "posting" /\ producer'[s].slot = r
       /\ producer'[s].item = i /\ producer'[s].name = n /\ producer'[s].left = producer[s].left
       /\ \A t \in Station : t # s => producer'[t] = producer[t]
  BY <1>1, <1>2, <1>4 DEF Producer
<1>11. /\ cold' \in [Contents -> Contents \cup Torns \cup {Null}]
       /\ cold'[n] = w
       /\ \A c \in Contents : c # n => cold'[c] = cold[c]
  BY <1>1, <1>3, <1>5, <1>7
<1>12. \A f \in Recorded : f # i => cold'[Whole(f)] = cold[Whole(f)]
  BY <1>1, <1>6, <1>11, NamesApart DEF Busy
<1> HIDE DEF i, n, w
<1>13. Shape'
  BY <1>3, <1>9, <1>10, <1>11 DEF Shape, RowsShape
<1>14. ProducersInv'
  <2>1. ASSUME NEW t \in Station, t # s PROVE producer'[t] = producer[t]
    BY <1>10, <2>1
  <2>2. /\ \A f \in producer'[s].left : Home[f] = s /\ source'[f].at = "queue"
        /\ producer'[s].item \in Recorded \ producer'[s].left /\ Home[producer'[s].item] = s
        /\ source'[producer'[s].item].at = "queue"
        /\ producer'[s].name \in Contents /\ producer'[s].name.rec \in {0, producer'[s].item}
        /\ producer'[s].item \notin clipped' =>
             /\ source'[producer'[s].item].frames = Len(Clip[producer'[s].item])
             /\ producer'[s].name = Whole(producer'[s].item)
    BY <1>3, <1>5, <1>10 DEF Finished
  <2> QED
    BY <1>3, <2>1, <2>2 DEF ProducersInv, Finished
<1>15. CallsInv'
  <2> SUFFICES ASSUME NEW o \in Slot
               PROVE  LET q == call'[o]
                      IN  /\ q.pc = "free" => q.rec = 0
                          /\ q.pc # "free" => q.rec \in Recording
                          /\ q.pc \in {"arrived", "hashed", "inserted"} => q.name \in Contents
                          /\ q.pc = "arrived" /\ q.rec \in Recorded => cold'[q.name] # Null
                          /\ q.pc \in {"hashed", "inserted"} => q.hash \in Contents
                          /\ q.pc \in {"hashed", "inserted"} /\ q.rec \in Uploaded => q.hash = Whole(q.rec)
                          /\ q.rec \in Recorded =>
                               \/ q.rec \in doubted
                               \/ producer'[Home[q.rec]].pc = "posting" /\ producer'[Home[q.rec]].slot = o
    BY <1>3 DEF CallsInv
  <2>1. CASE o = r
    BY <1>5, <1>6, <1>7, <1>8, <1>9, <1>10, <1>11, <2>1
  <2>2. CASE o # r
    <3>1. \A c \in Contents : cold[c] # Null => cold'[c] # Null
      BY <1>7, <1>11
    <3>2. call'[o] = call[o]
      BY <1>9, <2>2
    <3>3. call[o].rec \in Recorded =>
            \/ call[o].rec \in doubted
            \/ producer'[Home[call[o].rec]].pc = "posting" /\ producer'[Home[call[o].rec]].slot = o
      BY <1>1, <1>6, <1>10 DEF CallsInv
    <3> QED
      BY <3>1, <3>2, <3>3 DEF CallsInv
  <2> QED
    BY <2>1, <2>2
<1>16. PostingInv'
  <2> SUFFICES ASSUME NEW t \in Station, producer'[t].pc = "posting"
               PROVE  LET f == producer'[t].item
                          q == call'[producer'[t].slot]
                      IN  /\ producer'[t].slot \in Slot
                          /\ q.pc # "free" /\ q.awaited /\ q.rec = f
                          /\ f \notin clipped =>
                               /\ cold'[Whole(f)] = Whole(f)
                               /\ q.pc = "arrived" => q.name = Whole(f)
                               /\ q.pc \in {"hashed", "inserted"} => q.hash = Whole(f)
                               /\ q.pc = "answered" /\ q.code \in {201, 406} => Whole(f) \in Hashes
    BY <1>3 DEF PostingInv, Hashes
  <2>1. CASE t = s
    BY <1>4, <1>5, <1>7, <1>8, <1>9, <1>10, <1>11, <2>1
  <2>2. CASE t # s
    <3>1. producer'[t] = producer[t] /\ producer[t].pc = "posting"
      BY <1>10, <2>2
    <3>2. producer[t].slot # r /\ producer[t].slot \in Slot
      BY <1>4, <3>1 DEF PostingInv
    <3>3. call'[producer[t].slot] = call[producer[t].slot]
      BY <1>9, <3>2
    <3>4. producer[t].item \in Recorded /\ producer[t].item # i
      BY <1>5, <2>2, <3>1 DEF ProducersInv, Busy
    <3>5. cold'[Whole(producer[t].item)] = cold[Whole(producer[t].item)]
      BY <1>12, <3>4
    <3> QED
      BY <3>1, <3>2, <3>3, <3>5 DEF PostingInv
  <2> QED
    BY <2>1, <2>2
<1>17. UniqueInv' /\ RowsInv'
  <2>1. \A o \in Slot : call'[o].pc = "inserted" => o # r /\ call'[o] = call[o] /\ call[o].pc = "inserted"
    BY <1>8, <1>9
  <2> QED
    BY <1>3, <2>1 DEF UniqueInv, RowsInv, Hashes
<1>18. RemovedOnlyWhenStored'
  <2>1. \A f \in Recorded : source[f].at = "removed" => f # i
    BY <1>5
  <2> QED
    BY <1>3, <1>12, <2>1 DEF RemovedOnlyWhenStored, Hashes
<1> QED
  BY <1>13, <1>14, <1>15, <1>16, <1>17, <1>18

-----------------------------------------------------------------------------
(* Producers S let go of their files, in whatever way: answered, timed out,  *)
(* cancelled or killed.  A file is only removed after a good answer.         *)
Letting(S, r) == \E t \in S : producer[t].pc = "posting" /\ producer[t].slot = r

LEMMA Released ==
  ASSUME FileInv, NEW S \in SUBSET Station,
         producer' \in [Station -> Producer],
         \A t \in Station : t \notin S => producer'[t] = producer[t],
         \A t \in S : producer'[t].pc \notin Busy /\ producer'[t].left \subseteq producer[t].left,
         call' \in [Slot -> Call],
         \A r \in Slot : ~ Letting(S, r) => call'[r] = call[r],
         \A r \in Slot : Letting(S, r) =>
           \/ call'[r] = NoCall
           \/ call'[r] = [call[r] EXCEPT !.awaited = FALSE] /\ call[r].rec \in doubted',
         doubted \subseteq doubted', doubted' \in SUBSET Recorded,
         UNCHANGED <<clipped, rows>>,
         cold' \in [Contents -> Contents \cup Torns \cup {Null}],
         \A c \in Contents : cold'[c] # cold[c] =>
           cold'[c] # Null /\ \E t \in S : producer[t].pc \in Busy /\ c = producer[t].name,
         source' \in [Recorded -> Source],
         \A f \in Recorded : source'[f].frames = source[f].frames,
         \A f \in Recorded : source'[f].at # source[f].at =>
           /\ source'[f].at = "removed" /\ cold' = cold
           /\ \E t \in S : /\ producer[t].pc = "posting" /\ producer[t].item = f
                           /\ call[producer[t].slot].pc = "answered"
                           /\ call[producer[t].slot].code \in {201, 406}
  PROVE  FileInv'
<1> USE DEF FileInv
<1>1. /\ call \in [Slot -> Call] /\ producer \in [Station -> Producer]
      /\ \A f \in Recorded : f # 0 /\ f \in Recording /\ Home[f] \in Station /\ Whole(f) \in Contents
  BY RecordingAssumption, WholeContent DEF Shape, Recording
<1>2. ASSUME NEW t \in Station, producer[t].pc \in Busy
      PROVE  /\ producer[t].item \in Recorded \ producer[t].left /\ Home[producer[t].item] = t
             /\ source[producer[t].item].at = "queue"
  BY <1>2 DEF ProducersInv
<1>3. ASSUME NEW f \in Recorded, source'[f].at # source[f].at
      PROVE  /\ Home[f] \in S /\ f \notin producer[Home[f]].left
             /\ f \notin clipped => Whole(f) \in Hashes /\ cold'[Whole(f)] = Whole(f)
  <2>1. PICK t \in S : /\ producer[t].pc = "posting" /\ producer[t].item = f
                       /\ call[producer[t].slot].pc = "answered"
                       /\ call[producer[t].slot].code \in {201, 406}
    BY <1>3
  <2>2. Home[f] = t /\ f \notin producer[t].left
    BY <1>2, <2>1 DEF Busy
  <2>3. f \notin clipped => Whole(f) \in Hashes /\ cold[Whole(f)] = Whole(f)
    BY <2>1 DEF PostingInv
  <2> QED
    BY <1>3, <2>2, <2>3
<1>4. ASSUME NEW f \in Recorded, \A t \in S : producer[t].pc \in Busy => f # producer[t].item
      PROVE  cold'[Whole(f)] = cold[Whole(f)]
  BY <1>1, <1>4, NamesApart
<1>5. Shape'
  BY DEF Shape, RowsShape
<1>6. ProducersInv'
  <2>1. ASSUME NEW t \in Station, NEW f \in producer'[t].left
        PROVE  Home[f] = t /\ source'[f].at = "queue"
    <3>1. f \in producer[t].left
      BY <2>1
    <3>2. f \in Recorded /\ Home[f] = t /\ source[f].at = "queue"
      BY <1>1, <3>1 DEF ProducersInv, Producer
    <3> QED
      BY <1>3, <3>1, <3>2
  <2>2. ASSUME NEW t \in Station, producer'[t].pc \in Busy
        PROVE  /\ t \notin S /\ producer'[t] = producer[t]
               /\ producer[t].item \in Recorded /\ source'[producer[t].item].at = "queue"
               /\ source'[producer[t].item].frames = source[producer[t].item].frames
    <3>1. t \notin S /\ producer'[t] = producer[t]
      BY <2>2
    <3>2. producer[t].item \in Recorded /\ Home[producer[t].item] = t
          /\ source[producer[t].item].at = "queue"
      BY <1>2, <2>2, <3>1
    <3> QED
      BY <1>3, <3>1, <3>2
  <2> QED
    BY <2>1, <2>2 DEF ProducersInv, Finished
<1>7. CallsInv'
  <2> SUFFICES ASSUME NEW r \in Slot
               PROVE  LET q == call'[r]
                      IN  /\ q.pc = "free" => q.rec = 0
                          /\ q.pc # "free" => q.rec \in Recording
                          /\ q.pc \in {"arrived", "hashed", "inserted"} => q.name \in Contents
                          /\ q.pc = "arrived" /\ q.rec \in Recorded => cold'[q.name] # Null
                          /\ q.pc \in {"hashed", "inserted"} => q.hash \in Contents
                          /\ q.pc \in {"hashed", "inserted"} /\ q.rec \in Uploaded => q.hash = Whole(q.rec)
                          /\ q.rec \in Recorded =>
                               \/ q.rec \in doubted'
                               \/ producer'[Home[q.rec]].pc = "posting" /\ producer'[Home[q.rec]].slot = r
    BY DEF CallsInv
  <2>1. \A c \in Contents : cold[c] # Null => cold'[c] # Null
    OBVIOUS
  <2>2. CASE ~ Letting(S, r)
    <3>1. call'[r] = call[r]
      BY <2>2
    <3>2. call[r].rec \in Recorded =>
            \/ call[r].rec \in doubted'
            \/ producer'[Home[call[r].rec]].pc = "posting" /\ producer'[Home[call[r].rec]].slot = r
      BY <1>1, <2>2 DEF CallsInv, Letting
    <3> QED
      BY <2>1, <3>1, <3>2 DEF CallsInv
  <2>3. CASE Letting(S, r) /\ call'[r] = NoCall
    BY <1>1, <2>3 DEF NoCall
  <2>4. CASE call'[r] = [call[r] EXCEPT !.awaited = FALSE] /\ call[r].rec \in doubted'
    <3>1. /\ call'[r].pc = call[r].pc /\ call'[r].rec = call[r].rec
          /\ call'[r].name = call[r].name /\ call'[r].hash = call[r].hash
      BY <1>1, <2>4 DEF Call
    <3> QED
      BY <2>1, <2>4, <3>1 DEF CallsInv
  <2> QED
    BY <2>2, <2>3, <2>4
<1>8. PostingInv'
  <2> SUFFICES ASSUME NEW t \in Station, producer'[t].pc = "posting"
               PROVE  LET f == producer'[t].item
                          q == call'[producer'[t].slot]
                      IN  /\ producer'[t].slot \in Slot
                          /\ q.pc # "free" /\ q.awaited /\ q.rec = f
                          /\ f \notin clipped =>
                               /\ cold'[Whole(f)] = Whole(f)
                               /\ q.pc = "arrived" => q.name = Whole(f)
                               /\ q.pc \in {"hashed", "inserted"} => q.hash = Whole(f)
                               /\ q.pc = "answered" /\ q.code \in {201, 406} => Whole(f) \in Hashes
    BY DEF PostingInv, Hashes
  <2>1. t \notin S /\ producer'[t] = producer[t] /\ producer[t].pc = "posting"
    BY DEF Busy
  <2>2. producer[t].slot \in Slot /\ ~ Letting(S, producer[t].slot)
    BY <2>1, SlotsApart DEF Letting, PostingInv
  <2>3. producer[t].item \in Recorded /\ Home[producer[t].item] = t
    BY <1>2, <2>1 DEF Busy
  <2>4. cold'[Whole(producer[t].item)] = cold[Whole(producer[t].item)]
    BY <1>2, <1>4, <2>1, <2>3
  <2> QED
    BY <2>1, <2>2, <2>4 DEF PostingInv
<1>9. UniqueInv' /\ RowsInv'
  <2>1. \A r \in Slot : call'[r].pc = "inserted" => call[r].pc = "inserted" /\ call'[r].hash = call[r].hash
    BY <1>1 DEF NoCall, Call
  <2> QED
    BY <2>1 DEF UniqueInv, RowsInv, Hashes
<1>10. RemovedOnlyWhenStored'
  <2> SUFFICES ASSUME NEW f \in Recorded, source'[f].at = "removed", f \notin clipped
               PROVE  Whole(f) \in Hashes /\ cold'[Whole(f)] = Whole(f)
    BY DEF RemovedOnlyWhenStored, Hashes
  <2>1. CASE source[f].at = "removed"
    <3>1. \A t \in S : producer[t].pc \in Busy => f # producer[t].item
      BY <1>2, <2>1
    <3> QED
      BY <1>4, <2>1, <3>1 DEF RemovedOnlyWhenStored
  <2>2. CASE source[f].at # "removed"
    BY <1>3, <2>2
  <2> QED
    BY <2>1, <2>2
<1> QED
  BY <1>5, <1>6, <1>7, <1>8, <1>9, <1>10

LEMMA NoCallShape == NoCall \in Call /\ NextFile(Off) \in Producer /\ Off \in Producer /\ Asleep \in Producer
  BY DEF NoCall, Call, NextFile, Off, Asleep, Producer

LEMMA NextFileShape ==
  ASSUME NEW p \in Producer
  PROVE  NextFile(p) \in Producer /\ NextFile(p).pc \notin Busy /\ NextFile(p).left = p.left
  BY DEF NextFile, Off, Producer, Busy

LEMMA AnswerHandled ==
  ASSUME FileInv, NEW s \in Station, HandleAnswer(s) \/ UnlinkFails(s)
  PROVE  FileInv'
<1> DEFINE r == producer[s].slot
           i == producer[s].item
<1>1. /\ producer[s].pc = "posting" /\ call[r].pc = "answered"
      /\ call' = [call EXCEPT ![r] = NoCall]
      /\ UNCHANGED <<clipped, rows, cold>>
  BY DEF HandleAnswer, UnlinkFails, At
<1>2. /\ call \in [Slot -> Call] /\ producer \in [Station -> Producer]
      /\ source \in [Recorded -> Source] /\ r \in Slot
      /\ i \in Recorded /\ doubted \in SUBSET Recorded
      /\ cold \in [Contents -> Contents \cup Torns \cup {Null}]
  BY <1>1 DEF FileInv, Shape, PostingInv, ProducersInv, Busy
<1>3. \A o \in Slot : Letting({s}, o) <=> o = r
  BY <1>1 DEF Letting
<1>4. call' \in [Slot -> Call] /\ \A o \in Slot : call'[o] = IF o = r THEN NoCall ELSE call[o]
  BY <1>1, <1>2, NoCallShape
<1>5. /\ producer' \in [Station -> Producer]
      /\ \A t \in Station : t # s => producer'[t] = producer[t]
      /\ producer'[s].pc \notin Busy /\ producer'[s].left \subseteq producer[s].left
  <2>1. producer' = [producer EXCEPT ![s] = NextFile(producer[s])]
        \/ producer' = [producer EXCEPT ![s] = Asleep]
    BY DEF HandleAnswer, UnlinkFails
  <2>2. Asleep \in Producer /\ Asleep.pc \notin Busy /\ Asleep.left = {}
    BY DEF Asleep, Off, Producer, Busy
  <2> QED
    BY <1>2, <2>1, <2>2, NextFileShape
<1>6. doubted \subseteq doubted' /\ doubted' \in SUBSET Recorded
  BY <1>2 DEF HandleAnswer, UnlinkFails
<1>7. /\ source' \in [Recorded -> Source]
      /\ \A f \in Recorded : source'[f].frames = source[f].frames
      /\ \A f \in Recorded : source'[f].at # source[f].at =>
           f = i /\ source'[f].at = "removed" /\ call[r].code \in {201, 406}
  <2>1. CASE HandleAnswer(s)
    <3>1. source' = [source EXCEPT ![i].at =
                        IF call[r].code \in {201, 406} /\ s \in dir THEN "removed" ELSE source[i].at]
      BY <2>1 DEF HandleAnswer
    <3> QED
      BY <1>2, <3>1 DEF Source
  <2>2. CASE UnlinkFails(s)
    BY <1>2, <2>2 DEF UnlinkFails
  <2> QED
    BY <2>1, <2>2
<1>8. \A f \in Recorded : source'[f].at # source[f].at =>
        /\ source'[f].at = "removed" /\ cold' = cold
        /\ \E t \in {s} : /\ producer[t].pc = "posting" /\ producer[t].item = f
                          /\ call[producer[t].slot].pc = "answered"
                          /\ call[producer[t].slot].code \in {201, 406}
  BY <1>1, <1>7
<1> HIDE DEF r, i
<1> QED
  BY <1>1, <1>2, <1>3, <1>4, <1>5, <1>6, <1>7, <1>8, Released

LEMMA AwaitedShape ==
  ASSUME NEW q \in Call, NEW b \in BOOLEAN
  PROVE  [q EXCEPT !.awaited = b] \in Call
  BY DEF Call

(* What the end of the waiting of producers S leaves of the requests.        *)
LEMMA WithoutWaiting ==
  ASSUME FileInv, NEW S \in SUBSET Station,
         call' = CallsWithout(S), doubted' = doubted \cup Abandoned(S)
  PROVE  /\ call' \in [Slot -> Call]
         /\ \A r \in Slot : ~ Letting(S, r) => call'[r] = call[r]
         /\ \A r \in Slot : Letting(S, r) =>
              \/ call'[r] = NoCall
              \/ call'[r] = [call[r] EXCEPT !.awaited = FALSE] /\ call[r].rec \in doubted'
         /\ doubted \subseteq doubted' /\ doubted' \in SUBSET Recorded
<1>1. call \in [Slot -> Call] /\ doubted \in SUBSET Recorded
  BY DEF FileInv, Shape
<1>2. \A r \in Slot : Letting(S, r) <=> \E s \in Waiting(S) : producer[s].slot = r
  BY DEF Letting, Waiting
<1>3. \A r \in Slot : call'[r] = IF Letting(S, r)
                                 THEN IF call[r].pc = "answered" THEN NoCall
                                      ELSE [call[r] EXCEPT !.awaited = FALSE]
                                 ELSE call[r]
  BY <1>2 DEF CallsWithout
<1>4. ASSUME NEW q \in Call PROVE [q EXCEPT !.awaited = FALSE] \in Call
  <2>1. FALSE \in BOOLEAN
    OBVIOUS
  <2> QED
    BY <2>1, AwaitedShape
<1>5. call' \in [Slot -> Call]
  <2>1. \A r \in Slot : call'[r] \in Call
    BY <1>1, <1>3, <1>4, NoCallShape
  <2> QED
    BY <1>1, <2>1 DEF CallsWithout
<1>6. \A r \in Slot : Letting(S, r) => call[r].rec \in Abandoned(S)
  BY DEF Letting, Abandoned, Waiting, FileInv, PostingInv
<1>7. Abandoned(S) \subseteq Recorded
  BY DEF Abandoned, Waiting, FileInv, ProducersInv, Busy
<1> QED
  BY <1>1, <1>3, <1>5, <1>6, <1>7

LEMMA GivenUp ==
  ASSUME FileInv, NEW s \in Station, PostTimesOut(s) \/ CancelProducer(s)
  PROVE  FileInv'
<1>1. /\ call' = CallsWithout({s}) /\ doubted' = doubted \cup Abandoned({s})
      /\ UNCHANGED <<clipped, rows, cold, source>>
  BY DEF PostTimesOut, CancelProducer, storageVars
<1>2. /\ producer \in [Station -> Producer] /\ source \in [Recorded -> Source]
      /\ cold \in [Contents -> Contents \cup Torns \cup {Null}]
  BY DEF FileInv, Shape
<1>3. producer' = [producer EXCEPT ![s] = NextFile(producer[s])]
      \/ producer' = [producer EXCEPT ![s] = Off]
  BY DEF PostTimesOut, CancelProducer
<1>4. Off \in Producer /\ Off.pc \notin Busy /\ Off.left = {}
  BY DEF Off, Producer, Busy
<1>5. /\ producer' \in [Station -> Producer]
      /\ \A t \in Station : t # s => producer'[t] = producer[t]
      /\ producer'[s].pc \notin Busy /\ producer'[s].left \subseteq producer[s].left
  BY <1>2, <1>3, <1>4, NextFileShape
<1>6. /\ call' \in [Slot -> Call]
      /\ \A r \in Slot : ~ Letting({s}, r) => call'[r] = call[r]
      /\ \A r \in Slot : Letting({s}, r) =>
           \/ call'[r] = NoCall
           \/ call'[r] = [call[r] EXCEPT !.awaited = FALSE] /\ call[r].rec \in doubted'
      /\ doubted \subseteq doubted' /\ doubted' \in SUBSET Recorded
  BY <1>1, WithoutWaiting
<1>7. /\ \A f \in Recorded : source'[f].frames = source[f].frames
      /\ \A f \in Recorded : source'[f].at = source[f].at
      /\ source' \in [Recorded -> Source]
  BY <1>1, <1>2
<1>8. /\ cold' \in [Contents -> Contents \cup Torns \cup {Null}]
      /\ \A c \in Contents : cold'[c] = cold[c]
  BY <1>1, <1>2
<1> QED
  BY <1>1, <1>5, <1>6, <1>7, <1>8, Released

LEMMA RestartKeeps ==
  ASSUME FileInv, IngestionRestarts
  PROVE  FileInv'
<1>1. /\ call' = CallsWithout(Station) /\ doubted' = doubted \cup Abandoned(Station)
      /\ producer' = [t \in Station |-> Off]
      /\ UNCHANGED <<clipped, rows, source>>
  BY DEF IngestionRestarts
<1>2. /\ producer \in [Station -> Producer] /\ source \in [Recorded -> Source]
      /\ cold \in [Contents -> Contents \cup Torns \cup {Null}]
  BY DEF FileInv, Shape
<1>3. Off \in Producer /\ Off.pc \notin Busy /\ Off.left = {}
  BY DEF Off, Producer, Busy
<1>4. /\ cold' \in [Contents -> Contents \cup Torns \cup {Null}]
      /\ \A c \in Contents : cold'[c] # cold[c] =>
           cold'[c] # Null /\ \E t \in Station : producer[t].pc \in Busy /\ c = producer[t].name
  <2>1. CASE cold' = cold
    BY <1>2, <2>1
  <2>2. CASE \E t \in Station : /\ producer[t].pc = "copying"
                                /\ \E c \in Parts(producer[t].item) :
                                     cold' = [cold EXCEPT ![producer[t].name] = c]
    <3>1. PICK t \in Station : /\ producer[t].pc = "copying"
                               /\ \E c \in Parts(producer[t].item) :
                                    cold' = [cold EXCEPT ![producer[t].name] = c]
      BY <2>2
    <3>2. PICK c \in Parts(producer[t].item) : cold' = [cold EXCEPT ![producer[t].name] = c]
      BY <3>1
    <3>3. producer[t].item \in Recorded
      BY <3>1 DEF FileInv, ProducersInv, Busy
    <3>4. /\ source[producer[t].item].frames <= Len(Clip[producer[t].item])
          /\ source[producer[t].item].frames \in Nat /\ Len(Clip[producer[t].item]) \in Nat
          /\ producer[t].item \in Recording
      BY <1>2, <3>3, RecordingAssumption DEF FileInv, Shape, Source, Recording
    <3>5. c \in Contents
      BY <3>4, ContentsOf DEF Parts
    <3>6. c # Null
      BY <3>5, ContentParts
    <3> QED
      BY <1>2, <3>1, <3>2, <3>5, <3>6 DEF Busy
  <2> QED
    BY <2>1, <2>2 DEF IngestionRestarts
<1>5. /\ call' \in [Slot -> Call]
      /\ \A r \in Slot : ~ Letting(Station, r) => call'[r] = call[r]
      /\ \A r \in Slot : Letting(Station, r) =>
           \/ call'[r] = NoCall
           \/ call'[r] = [call[r] EXCEPT !.awaited = FALSE] /\ call[r].rec \in doubted'
      /\ doubted \subseteq doubted' /\ doubted' \in SUBSET Recorded
  BY <1>1, WithoutWaiting
<1>6. /\ \A f \in Recorded : source'[f].frames = source[f].frames
      /\ \A f \in Recorded : source'[f].at = source[f].at
      /\ source' \in [Recorded -> Source]
  BY <1>1, <1>2
<1>7. /\ producer' \in [Station -> Producer]
      /\ \A t \in Station : producer'[t].pc \notin Busy /\ producer'[t].left \subseteq producer[t].left
  BY <1>1, <1>3
<1> QED
  BY <1>1, <1>4, <1>5, <1>6, <1>7, Released

-----------------------------------------------------------------------------
(* The requests that the API handles, or fails, in one step.                 *)
LEMMA AnsweredShape ==
  ASSUME NEW q \in Call, NEW code \in {0, 201, 406, 422, 500}
  PROVE  /\ Answered(q, code) \in Call
         /\ \/ /\ q.awaited /\ q.rec \in Recorded
               /\ Answered(q, code).pc = "answered" /\ Answered(q, code).awaited
               /\ Answered(q, code).rec = q.rec /\ Answered(q, code).code = code
            \/ ~ (q.awaited /\ q.rec \in Recorded) /\ Answered(q, code) = NoCall
<1>1. CASE q.awaited /\ q.rec \in Recorded
  <2>1. Answered(q, code) = [pc |-> "answered", rec |-> q.rec, name |-> Null, hash |-> Null,
                             awaited |-> TRUE, code |-> code]
    BY <1>1 DEF Answered, NoCall
  <2>2. q.rec \in Recording \cup {0}
    BY DEF Call
  <2> QED
    BY <1>1, <2>1, <2>2 DEF Call
<1>2. CASE ~ (q.awaited /\ q.rec \in Recorded)
  BY <1>2, NoCallShape DEF Answered
<1> QED
  BY <1>1, <1>2

LEMMA HashedShape ==
  ASSUME NEW q \in Call, NEW c \in Contents
  PROVE  [q EXCEPT !.pc = "hashed", !.hash = c] \in Call
<1>1. ASSUME NEW x \in Call PROVE [x EXCEPT !.pc = "hashed"] \in Call
  BY DEF Call
<1>2. ASSUME NEW x \in Call PROVE [x EXCEPT !.hash = c] \in Call
  BY DEF Call
<1> QED
  BY <1>1, <1>2

LEMMA PostedShape ==
  ASSUME NEW f \in Recording, NEW n \in Contents
  PROVE  /\ Posted(f, n) \in Call /\ Posted(f, n).pc = "arrived"
         /\ Posted(f, n).rec = f /\ Posted(f, n).name = n /\ Posted(f, n).awaited
  BY DEF Posted, NoCall, Call

Serves(s, r) == producer[s].pc = "posting" /\ producer[s].slot = r

LEMMA CallsMove ==
  ASSUME FileInv, call' \in [Slot -> Call],
         UNCHANGED <<source, producer, doubted, clipped>>,
         RowsShape', Hashes \subseteq Hashes', UniqueInv', RowsInv',
         cold' \in [Contents -> Contents \cup Torns \cup {Null}],
         \A c \in Contents : cold[c] # Null => cold'[c] = cold[c],
         \A r \in Slot : call'[r] # call[r] =>
           \/ call[r].pc = "free" /\ \E f \in Uploaded : call'[r] = Posted(f, Whole(f))
           \/ /\ call[r].pc \in {"arrived", "hashed", "inserted"}
              /\ call'[r].pc \in {"hashed", "inserted"}
              /\ call'[r].rec = call[r].rec /\ call'[r].name = call[r].name
              /\ call[r].awaited => call'[r].awaited
              /\ call'[r].hash \in Contents
              /\ call[r].rec \in Uploaded => call'[r].hash = Whole(call[r].rec)
              /\ \A s \in Station : Serves(s, r) /\ call[r].rec \notin clipped =>
                   call'[r].hash = Whole(call[r].rec)
           \/ /\ call[r].pc \in {"arrived", "hashed", "inserted"}
              /\ \E code \in {0, 201, 406, 422, 500} :
                   /\ call'[r] = Answered(call[r], code)
                   /\ \A s \in Station :
                        Serves(s, r) /\ call[r].rec \notin clipped /\ code \in {201, 406} =>
                          Whole(call[r].rec) \in Hashes'
  PROVE  FileInv'
<1> USE DEF FileInv
<1>1. /\ call \in [Slot -> Call] /\ producer \in [Station -> Producer]
      /\ \A f \in Recorded : f # 0 /\ f \in Recording /\ f \notin Uploaded /\ Whole(f) \in Contents
      /\ \A f \in Uploaded : f # 0 /\ f \in Recording /\ f \notin Recorded /\ Whole(f) \in Contents
  BY RecordingAssumption, WholeContent DEF Shape, Recording
<1>2. \A f \in Recorded : cold[Whole(f)] = Whole(f) => cold'[Whole(f)] = Whole(f)
  BY <1>1, WholeContent
<1>3. Shape'
  BY DEF Shape
<1>4. ProducersInv'
  BY DEF ProducersInv, Finished
<1>5. ASSUME NEW r \in Slot
      PROVE  LET q == call'[r]
             IN  /\ q.pc = "free" => q.rec = 0
                 /\ q.pc # "free" => q.rec \in Recording
                 /\ q.pc \in {"arrived", "hashed", "inserted"} => q.name \in Contents
                 /\ q.pc = "arrived" /\ q.rec \in Recorded => cold'[q.name] # Null
                 /\ q.pc \in {"hashed", "inserted"} => q.hash \in Contents
                 /\ q.pc \in {"hashed", "inserted"} /\ q.rec \in Uploaded => q.hash = Whole(q.rec)
                 /\ q.rec \in Recorded => q.rec = call[r].rec
  <2>1. CASE call'[r] = call[r]
    BY <2>1 DEF CallsInv
  <2>2. CASE \E f \in Uploaded : call'[r] = Posted(f, Whole(f))
    <3>1. PICK f \in Uploaded : call'[r] = Posted(f, Whole(f))
      BY <2>2
    <3> QED
      BY <1>1, <3>1, PostedShape
  <2>3. CASE /\ call[r].pc \in {"arrived", "hashed", "inserted"}
             /\ call'[r].pc \in {"hashed", "inserted"}
             /\ call'[r].rec = call[r].rec /\ call'[r].name = call[r].name
             /\ call'[r].hash \in Contents
             /\ call[r].rec \in Uploaded => call'[r].hash = Whole(call[r].rec)
    BY <2>3 DEF CallsInv
  <2>4. CASE /\ call[r].pc \in {"arrived", "hashed", "inserted"}
             /\ \E code \in {0, 201, 406, 422, 500} : call'[r] = Answered(call[r], code)
    <3>1. PICK code \in {0, 201, 406, 422, 500} : call'[r] = Answered(call[r], code)
      BY <2>4
    <3>2. CASE call'[r].pc = "answered" /\ call'[r].rec = call[r].rec
      BY <2>4, <3>2 DEF CallsInv
    <3>3. CASE call'[r] = NoCall
      BY <1>1, <3>3 DEF NoCall
    <3> QED
      BY <1>1, <3>1, <3>2, <3>3, AnsweredShape
  <2> QED
    BY <2>1, <2>2, <2>3, <2>4
<1>6. CallsInv'
  <2>1. \A r \in Slot : call'[r].rec \in Recorded =>
          \/ call'[r].rec \in doubted
          \/ producer[Home[call'[r].rec]].pc = "posting" /\ producer[Home[call'[r].rec]].slot = r
    BY <1>5 DEF CallsInv
  <2> QED
    BY <1>5, <2>1 DEF CallsInv
<1>7. PostingInv'
  <2> SUFFICES ASSUME NEW s \in Station, producer[s].pc = "posting"
               PROVE  LET f == producer[s].item
                          q == call'[producer[s].slot]
                      IN  /\ producer[s].slot \in Slot
                          /\ q.pc # "free" /\ q.awaited /\ q.rec = f
                          /\ f \notin clipped =>
                               /\ cold'[Whole(f)] = Whole(f)
                               /\ q.pc = "arrived" => q.name = Whole(f)
                               /\ q.pc \in {"hashed", "inserted"} => q.hash = Whole(f)
                               /\ q.pc = "answered" /\ q.code \in {201, 406} => Whole(f) \in Hashes'
    BY DEF PostingInv
  <2> DEFINE r == producer[s].slot
             f == producer[s].item
  <2>1. /\ r \in Slot /\ Serves(s, r)
        /\ call[r].pc # "free" /\ call[r].awaited /\ call[r].rec = f /\ f \in Recorded
        /\ f \notin clipped =>
             /\ cold[Whole(f)] = Whole(f)
             /\ call[r].pc = "arrived" => call[r].name = Whole(f)
             /\ call[r].pc \in {"hashed", "inserted"} => call[r].hash = Whole(f)
             /\ call[r].pc = "answered" /\ call[r].code \in {201, 406} => Whole(f) \in Hashes
    BY DEF PostingInv, Serves, ProducersInv, Busy
  <2>2. f \notin clipped => cold'[Whole(f)] = Whole(f)
    BY <1>2, <2>1
  <2> HIDE DEF r, f
  <2>3. CASE call'[r] = call[r]
    BY <2>1, <2>2, <2>3 DEF r, f
  <2>4. CASE /\ call'[r].pc \in {"hashed", "inserted"}
             /\ call'[r].rec = call[r].rec
             /\ call[r].awaited => call'[r].awaited
             /\ \A t \in Station : Serves(t, r) /\ call[r].rec \notin clipped =>
                  call'[r].hash = Whole(call[r].rec)
    BY <2>1, <2>2, <2>4 DEF r, f
  <2>5. CASE \E code \in {0, 201, 406, 422, 500} :
               /\ call'[r] = Answered(call[r], code)
               /\ \A t \in Station :
                    Serves(t, r) /\ call[r].rec \notin clipped /\ code \in {201, 406} =>
                      Whole(call[r].rec) \in Hashes'
    <3>1. PICK code \in {0, 201, 406, 422, 500} :
               /\ call'[r] = Answered(call[r], code)
               /\ \A t \in Station :
                    Serves(t, r) /\ call[r].rec \notin clipped /\ code \in {201, 406} =>
                      Whole(call[r].rec) \in Hashes'
      BY <2>5
    <3>2. call[r] \in Call
      BY <1>1, <2>1
    <3>3. /\ call'[r].pc = "answered" /\ call'[r].awaited
          /\ call'[r].rec = f /\ call'[r].code = code
      BY <2>1, <3>1, <3>2, AnsweredShape
    <3> QED
      BY <2>1, <2>2, <3>1, <3>3 DEF r, f
  <2> QED
    BY <2>1, <2>3, <2>4, <2>5
<1>8. RemovedOnlyWhenStored'
  BY <1>2 DEF RemovedOnlyWhenStored
<1> QED
  BY <1>3, <1>4, <1>6, <1>7, <1>8

(* A request is answered, and nothing else happens.                          *)
LEMMA AnswerKeeps ==
  ASSUME FileInv, NEW r \in Slot,
         call[r].pc \in {"arrived", "hashed", "inserted"},
         \E code \in {0, 201, 406, 422, 500} :
           /\ call' = [call EXCEPT ![r] = Answered(call[r], code)]
           /\ \A s \in Station :
                Serves(s, r) /\ call[r].rec \notin clipped /\ code \in {201, 406} =>
                  Whole(call[r].rec) \in Hashes,
         UNCHANGED <<source, producer, doubted, clipped, rows, cold>>
  PROVE  FileInv'
<1> USE DEF FileInv
<1> PICK code \in {0, 201, 406, 422, 500} :
      /\ call' = [call EXCEPT ![r] = Answered(call[r], code)]
      /\ \A s \in Station :
           Serves(s, r) /\ call[r].rec \notin clipped /\ code \in {201, 406} =>
             Whole(call[r].rec) \in Hashes
  OBVIOUS
<1>1. call \in [Slot -> Call] /\ call[r] \in Call
      /\ cold \in [Contents -> Contents \cup Torns \cup {Null}]
  BY DEF Shape
<1>2. Answered(call[r], code) \in Call /\ Answered(call[r], code).pc # "inserted"
  <2>1. NoCall.pc # "inserted"
    BY DEF NoCall
  <2> QED
    BY <1>1, <2>1, AnsweredShape
<1>3. /\ call' \in [Slot -> Call] /\ call'[r] = Answered(call[r], code)
      /\ \A o \in Slot : o # r => call'[o] = call[o]
  BY <1>1, <1>2
<1>4. UniqueInv'
  BY <1>2, <1>3 DEF UniqueInv, Hashes
<1>5. RowsShape' /\ Hashes' = Hashes /\ RowsInv'
  BY DEF Shape, RowsShape, RowsInv, Hashes
<1> QED
  BY <1>1, <1>3, <1>4, <1>5, CallsMove

(* Reading a copy gives a content the file has or had, and the whole of it   *)
(* once the copy is complete.                                                *)
LEMMA ReadingsOf ==
  ASSUME FileInv, NEW n \in Contents, cold[n] # Null
  PROVE  /\ Readings(n) \subseteq Contents
         /\ \A f \in Recording : cold[n] = Whole(f) => Readings(n) = {Whole(f)}
<1>1. cold[n] \in Contents \/ \E f \in Recorded : cold[n] = Torn(f)
  BY DEF FileInv, Shape, Torns
<1>2. CASE cold[n] \in Contents
  <2>1. cold[n].frames # -1
    BY <1>2, ContentParts
  <2> QED
    BY <1>2, <2>1 DEF Readings
<1>3. CASE \E f \in Recorded : cold[n] = Torn(f)
  <2>1. PICK f \in Recorded : cold[n] = Torn(f)
    BY <1>3
  <2>2. cold[n].frames = -1 /\ cold[n].rec = f
    BY <2>1 DEF Torn
  <2>3. /\ source[f].frames <= Len(Clip[f]) /\ source[f].frames \in Nat
        /\ Len(Clip[f]) \in Nat /\ f \in Recording
    BY RecordingAssumption DEF FileInv, Shape, Source, Recording
  <2>4. Parts(f) \subseteq Contents
    BY <2>3, ContentsOf DEF Parts
  <2>5. \A g \in Recording : cold[n] # Whole(g)
    BY <2>2, WholeContent
  <2> QED
    BY <2>2, <2>4, <2>5 DEF Readings
<1> QED
  BY <1>1, <1>2, <1>3

(* What the producer that waits for a request makes sure of.                 *)
LEMMA ServedCall ==
  ASSUME FileInv, NEW r \in Slot, NEW s \in Station, Serves(s, r)
  PROVE  /\ call[r].rec \in Recorded
         /\ call[r].rec \notin clipped =>
              /\ cold[Whole(call[r].rec)] = Whole(call[r].rec)
              /\ call[r].pc = "arrived" => call[r].name = Whole(call[r].rec)
              /\ call[r].pc \in {"hashed", "inserted"} => call[r].hash = Whole(call[r].rec)
  BY DEF FileInv, PostingInv, ProducersInv, Serves, Busy

LEMMA HashFileKeeps ==
  ASSUME FileInv, NEW r \in Slot, HashFile(r), UNCHANGED ingestVars
  PROVE  FileInv'
<1>1. /\ UNCHANGED <<source, producer, doubted, clipped, rows, cold>>
      /\ call[r].pc = "arrived"
  BY DEF HashFile, ingestVars, storageVars
<1>2. /\ call \in [Slot -> Call] /\ call[r] \in Call
      /\ cold \in [Contents -> Contents \cup Torns \cup {Null}]
      /\ call[r].rec \in Recording /\ call[r].name \in Contents
      /\ call[r].rec \in Recorded => cold[call[r].name] # Null
  BY <1>1 DEF FileInv, Shape, CallsInv
<1>3. \A f \in Recording : f \in Recorded \/ f \in Uploaded
  BY DEF Recording
<1>4. \/ \E code \in {0, 201, 406, 422, 500} :
           /\ call' = [call EXCEPT ![r] = Answered(call[r], code)]
           /\ \A s \in Station :
                Serves(s, r) /\ call[r].rec \notin clipped /\ code \in {201, 406} =>
                  Whole(call[r].rec) \in Hashes
      \/ \E c \in Contents :
           /\ call' = [call EXCEPT ![r].pc = "hashed", ![r].hash = c]
           /\ call[r].rec \in Uploaded => c = Whole(call[r].rec)
           /\ \A s \in Station : Serves(s, r) /\ call[r].rec \notin clipped => c = Whole(call[r].rec)
  <2>1. CASE call' = [call EXCEPT ![r] = Answered(call[r], 422)]
    BY <2>1
  <2>2. ASSUME NEW c \in IF call[r].rec \in Uploaded THEN {Whole(call[r].rec)}
                                                     ELSE Readings(call[r].name)
        PROVE  /\ c \in Contents
               /\ call[r].rec \in Uploaded => c = Whole(call[r].rec)
               /\ \A s \in Station : Serves(s, r) /\ call[r].rec \notin clipped => c = Whole(call[r].rec)
    <3>1. CASE call[r].rec \in Uploaded
      BY <2>2, <3>1, WholeContent, <1>2
    <3>2. CASE call[r].rec \notin Uploaded
      BY <1>1, <1>2, <1>3, <2>2, <3>2, ReadingsOf, ServedCall
    <3> QED
      BY <3>1, <3>2
  <2>3. CASE \E c \in IF call[r].rec \in Uploaded THEN {Whole(call[r].rec)}
                                                  ELSE Readings(call[r].name) :
               IF c \in Hashes THEN call' = [call EXCEPT ![r] = Answered(call[r], 406)]
               ELSE call' = [call EXCEPT ![r].pc = "hashed", ![r].hash = c]
    <3>1. PICK c \in IF call[r].rec \in Uploaded THEN {Whole(call[r].rec)}
                                                 ELSE Readings(call[r].name) :
               IF c \in Hashes THEN call' = [call EXCEPT ![r] = Answered(call[r], 406)]
               ELSE call' = [call EXCEPT ![r].pc = "hashed", ![r].hash = c]
      BY <2>3
    <3>2. CASE c \in Hashes
      <4>1. call' = [call EXCEPT ![r] = Answered(call[r], 406)]
        BY <3>1, <3>2
      <4>2. \A s \in Station : Serves(s, r) /\ call[r].rec \notin clipped =>
              Whole(call[r].rec) \in Hashes
        BY <2>2, <3>2
      <4> QED
        BY <4>1, <4>2
    <3>3. CASE c \notin Hashes
      BY <2>2, <3>1, <3>3
    <3> QED
      BY <3>2, <3>3
  <2> QED
    BY <2>1, <2>3 DEF HashFile, Answer
<1>5. CASE \E code \in {0, 201, 406, 422, 500} :
           /\ call' = [call EXCEPT ![r] = Answered(call[r], code)]
           /\ \A s \in Station :
                Serves(s, r) /\ call[r].rec \notin clipped /\ code \in {201, 406} =>
                  Whole(call[r].rec) \in Hashes
  <2>1. call[r].pc \in {"arrived", "hashed", "inserted"}
    BY <1>1
  <2>2. UNCHANGED <<source, producer, doubted, clipped, rows, cold>>
    BY <1>1
  <2> QED
    BY <1>5, <2>1, <2>2, AnswerKeeps
<1>6. CASE \E c \in Contents :
           /\ call' = [call EXCEPT ![r].pc = "hashed", ![r].hash = c]
           /\ call[r].rec \in Uploaded => c = Whole(call[r].rec)
           /\ \A s \in Station : Serves(s, r) /\ call[r].rec \notin clipped => c = Whole(call[r].rec)
  <2>1. PICK c \in Contents :
           /\ call' = [call EXCEPT ![r].pc = "hashed", ![r].hash = c]
           /\ call[r].rec \in Uploaded => c = Whole(call[r].rec)
           /\ \A s \in Station : Serves(s, r) /\ call[r].rec \notin clipped => c = Whole(call[r].rec)
    BY <1>6
  <2>2. [call[r] EXCEPT !.pc = "hashed", !.hash = c] \in Call
    BY <1>2, HashedShape
  <2>3. /\ call' \in [Slot -> Call] /\ \A o \in Slot : o # r => call'[o] = call[o]
        /\ call'[r].pc = "hashed" /\ call'[r].hash = c /\ call'[r].rec = call[r].rec
        /\ call'[r].name = call[r].name /\ call'[r].awaited = call[r].awaited
    BY <1>2, <2>1, <2>2 DEF Call
  <2>4. UniqueInv'
    BY <1>1, <2>3 DEF FileInv, UniqueInv, Hashes
  <2>5. RowsShape' /\ Hashes' = Hashes /\ RowsInv'
    BY <1>1 DEF FileInv, Shape, RowsShape, RowsInv, Hashes
  <2> QED
    BY <1>1, <1>2, <2>1, <2>3, <2>4, <2>5, CallsMove
<1> QED
  BY <1>4, <1>5, <1>6

-----------------------------------------------------------------------------
LEMMA Appended ==
  ASSUME RowsShape, NEW x, rows' = Append(rows, x),
         {"rec", "hash", "stage", "found"} \subseteq DOMAIN x,
         x.rec \in Recording, x.hash \in Contents
  PROVE  /\ RowsShape' /\ Hashes' = Hashes \cup {x.hash}
         /\ \A i \in DOMAIN rows' : \/ i \in DOMAIN rows /\ rows'[i] = rows[i]
                                    \/ i = Len(rows) + 1 /\ rows'[i] = x
         /\ DOMAIN rows' = 1 .. Len(rows) + 1 /\ DOMAIN rows = 1 .. Len(rows)
         /\ Len(rows) \in Nat
<1> DEFINE T == {rows[i] : i \in DOMAIN rows} \cup {x}
<1>1. rows \in Seq(T)
  BY DEF RowsShape
<1>2. x \in T
  OBVIOUS
<1> HIDE DEF T
<1>3. /\ rows' \in Seq(T) /\ Len(rows) \in Nat /\ Len(rows') = Len(rows) + 1
      /\ DOMAIN rows' = 1 .. Len(rows) + 1 /\ DOMAIN rows = 1 .. Len(rows)
      /\ \A i \in 1 .. Len(rows) : rows'[i] = rows[i]
      /\ rows'[Len(rows) + 1] = x
  BY <1>1, <1>2
<1>4. /\ \A i \in DOMAIN rows : i \in DOMAIN rows' /\ rows'[i] = rows[i]
      /\ Len(rows) + 1 \in DOMAIN rows'
      /\ \A i \in DOMAIN rows' : \/ i \in DOMAIN rows /\ rows'[i] = rows[i]
                                 \/ i = Len(rows) + 1 /\ rows'[i] = x
  BY <1>3
<1>5. rows' \in Seq({rows'[i] : i \in DOMAIN rows'})
  <2>1. \A i \in 1 .. Len(rows') : rows'[i] \in {rows'[j] : j \in DOMAIN rows'}
    BY <1>3
  <2> QED
    BY <1>3, <2>1
<1>6. Hashes' = Hashes \cup {x.hash}
  BY <1>3, <1>4 DEF Hashes
<1>7. RowsShape'
  <2>1. \A i \in DOMAIN rows' :
          /\ {"rec", "hash", "stage", "found"} \subseteq DOMAIN rows'[i]
          /\ rows'[i].rec \in Recording /\ rows'[i].hash \in Contents
    BY <1>4 DEF RowsShape
  <2> QED
    BY <1>5, <2>1 DEF RowsShape
<1> QED
  BY <1>3, <1>4, <1>6, <1>7

LEMMA InsertRowKeeps ==
  ASSUME FileInv, NEW r \in Slot, InsertRow(r), UNCHANGED ingestVars
  PROVE  FileInv'
<1>1. /\ UNCHANGED <<source, producer, doubted, clipped, rows>>
      /\ call[r].pc = "hashed" /\ call[r].pc \in {"arrived", "hashed", "inserted"}
      /\ \A o \in Slot : call[o].pc = "inserted" => call[o].hash # call[r].hash
  BY DEF InsertRow, ingestVars
<1>2. /\ call \in [Slot -> Call] /\ call[r] \in Call
      /\ cold \in [Contents -> Contents \cup Torns \cup {Null}]
      /\ call[r].name \in Contents /\ call[r].hash \in Contents
      /\ call[r].rec \in Uploaded => call[r].hash = Whole(call[r].rec)
  BY <1>1 DEF FileInv, Shape, CallsInv
<1>3. CASE call[r].hash \in Hashes
  <2>1. cold' = cold /\ call' = [call EXCEPT ![r] = Answered(call[r], 500)]
    BY <1>3 DEF InsertRow, Answer
  <2>2. \E code \in {0, 201, 406, 422, 500} :
           /\ call' = [call EXCEPT ![r] = Answered(call[r], code)]
           /\ \A s \in Station :
                Serves(s, r) /\ call[r].rec \notin clipped /\ code \in {201, 406} =>
                  Whole(call[r].rec) \in Hashes
    BY <2>1
  <2>3. /\ call[r].pc \in {"arrived", "hashed", "inserted"}
        /\ UNCHANGED <<source, producer, doubted, clipped, rows, cold>>
    BY <1>1, <2>1
  <2> HIDE DEF Answered, FileInv
  <2> QED
    BY <2>2, <2>3, AnswerKeeps
<1>4. CASE call[r].hash \notin Hashes
  <2>1. /\ call' = [call EXCEPT ![r].pc = "inserted"]
        /\ cold' = IF call[r].rec \in Uploaded /\ cold[call[r].name] = Null
                   THEN [cold EXCEPT ![call[r].name] = call[r].hash] ELSE cold
    BY <1>4 DEF InsertRow
  <2>2. ASSUME NEW q \in Call PROVE [q EXCEPT !.pc = "inserted"] \in Call
    BY DEF Call
  <2>3. /\ call' \in [Slot -> Call] /\ \A o \in Slot : o # r => call'[o] = call[o]
        /\ call'[r].pc = "inserted" /\ call'[r].hash = call[r].hash /\ call'[r].rec = call[r].rec
        /\ call'[r].name = call[r].name /\ call'[r].awaited = call[r].awaited
    BY <1>2, <2>1, <2>2 DEF Call
  <2>4. /\ cold' \in [Contents -> Contents \cup Torns \cup {Null}]
        /\ \A c \in Contents : cold[c] # Null => cold'[c] = cold[c]
    BY <1>2, <2>1
  <2>5. UniqueInv'
    <3>1. \A o \in Slot : o # r => call'[o] = call[o]
      BY <2>3
    <3> QED
      BY <1>1, <1>4, <2>3, <3>1 DEF FileInv, UniqueInv, Hashes
  <2>6. RowsShape' /\ Hashes' = Hashes /\ RowsInv'
    BY <1>1 DEF FileInv, Shape, RowsShape, RowsInv, Hashes
  <2>7. \A s \in Station : Serves(s, r) /\ call[r].rec \notin clipped =>
          call'[r].hash = Whole(call[r].rec)
    BY <1>1, <2>3, ServedCall
  <2> QED
    BY <1>1, <1>2, <2>3, <2>4, <2>5, <2>6, <2>7, CallsMove
<1> QED
  BY <1>3, <1>4

LEMMA CommitRowKeeps ==
  ASSUME FileInv, NEW r \in Slot, CommitRow(r), UNCHANGED ingestVars
  PROVE  FileInv'
<1> DEFINE x == [rec |-> call[r].rec, hash |-> call[r].hash, name |-> call[r].name,
                 stage |-> "queued", found |-> <<>>]
<1>1. /\ UNCHANGED <<source, cold, producer, doubted, clipped>>
      /\ call[r].pc = "inserted"
      /\ rows' = Append(rows, x) /\ call' = [call EXCEPT ![r] = Answered(call[r], 201)]
  BY DEF CommitRow, Answer, ingestVars, storageVars
<1>2. /\ call \in [Slot -> Call] /\ call[r] \in Call
      /\ cold \in [Contents -> Contents \cup Torns \cup {Null}]
      /\ call[r].rec \in Recording /\ call[r].hash \in Contents
      /\ call[r].rec \in Uploaded => call[r].hash = Whole(call[r].rec)
      /\ RowsShape
  BY <1>1 DEF FileInv, Shape, CallsInv
<1>3. /\ {"rec", "hash", "stage", "found"} \subseteq DOMAIN x
      /\ x.rec = call[r].rec /\ x.hash = call[r].hash
  OBVIOUS
<1> HIDE DEF x
<1>4. /\ RowsShape' /\ Hashes' = Hashes \cup {call[r].hash}
      /\ \A i \in DOMAIN rows' : (i \in DOMAIN rows /\ rows'[i] = rows[i]) \/ rows'[i] = x
  BY <1>1, <1>2, <1>3, Appended
<1>5. /\ Answered(call[r], 201) \in Call /\ Answered(call[r], 201).pc # "inserted"
  <2>1. NoCall.pc # "inserted"
    BY DEF NoCall
  <2> QED
    BY <1>2, <2>1, AnsweredShape
<1>6. /\ call' \in [Slot -> Call] /\ call'[r] = Answered(call[r], 201)
      /\ \A o \in Slot : o # r => call'[o] = call[o]
  BY <1>1, <1>2, <1>5
<1>7. UniqueInv'
  <2>1. \A o \in Slot : call'[o].pc = "inserted" =>
          o # r /\ call'[o] = call[o] /\ call[o].pc = "inserted" /\ call[o].hash # call[r].hash
    BY <1>1, <1>5, <1>6 DEF FileInv, UniqueInv
  <2>2. \A o \in Slot : call'[o].pc = "inserted" => call'[o].hash \notin Hashes'
    BY <1>4, <2>1 DEF FileInv, UniqueInv
  <2>3. \A o \in Slot : call'[o].pc = "inserted" =>
          \A p \in Slot \ {o} : call'[p].pc = "inserted" => call'[p].hash # call'[o].hash
    BY <2>1 DEF FileInv, UniqueInv
  <2> QED
    BY <2>2, <2>3 DEF UniqueInv
<1>8. call[r].rec \notin doubted \cup clipped => call[r].hash = Whole(call[r].rec)
  <2>1. CASE call[r].rec \in Uploaded
    BY <1>2, <2>1
  <2>2. CASE call[r].rec \in Recorded
    <3>1. Home[call[r].rec] \in Station
      BY <2>2, RecordingAssumption
    <3>2. call[r].rec \in doubted \/ Serves(Home[call[r].rec], r)
      BY <2>2 DEF FileInv, CallsInv, Serves
    <3> QED
      BY <1>1, <3>1, <3>2, ServedCall
  <2> QED
    BY <1>2, <2>1, <2>2 DEF Recording
<1>9. RowsInv'
  BY <1>1, <1>3, <1>4, <1>8 DEF FileInv, RowsInv
<1>10. \A s \in Station : Serves(s, r) /\ call[r].rec \notin clipped =>
         Whole(call[r].rec) \in Hashes'
  BY <1>1, <1>4, ServedCall
<1>11. \E code \in {0, 201, 406, 422, 500} :
         /\ call'[r] = Answered(call[r], code)
         /\ \A s \in Station :
              Serves(s, r) /\ call[r].rec \notin clipped /\ code \in {201, 406} =>
                Whole(call[r].rec) \in Hashes'
  BY <1>6, <1>10
<1>12. call[r].pc \in {"arrived", "hashed", "inserted"} /\ Hashes \subseteq Hashes'
  BY <1>1, <1>4
<1> QED
  BY <1>1, <1>2, <1>4, <1>6, <1>7, <1>9, <1>11, <1>12, CallsMove

LEMMA CallFailsKeeps ==
  ASSUME FileInv, NEW r \in Slot, CallFails(r), UNCHANGED ingestVars
  PROVE  FileInv'
<1>1. /\ UNCHANGED <<source, producer, doubted, clipped, rows, cold>>
      /\ call[r].pc \in {"arrived", "hashed", "inserted"}
      /\ call' = [call EXCEPT ![r] = Answered(call[r], 500)]
  BY DEF CallFails, Answer, ingestVars
<1>2. \E code \in {0, 201, 406, 422, 500} :
         /\ call' = [call EXCEPT ![r] = Answered(call[r], code)]
         /\ \A s \in Station :
              Serves(s, r) /\ call[r].rec \notin clipped /\ code \in {201, 406} =>
                Whole(call[r].rec) \in Hashes
  BY <1>1
<1> QED
  BY <1>1, <1>2, AnswerKeeps

LEMMA UploadKeeps ==
  ASSUME FileInv, NEW f \in Uploaded, Upload(f), UNCHANGED ingestVars
  PROVE  FileInv'
<1>1. UNCHANGED <<source, producer, doubted, clipped, rows, cold>>
  BY DEF Upload, ingestVars, storageVars
<1>2. PICK r \in FreeSlot : call' = [call EXCEPT ![r] = Posted(f, Whole(f))]
  BY DEF Upload
<1>3. /\ r \in Slot /\ call[r].pc = "free"
      /\ call \in [Slot -> Call]
      /\ cold \in [Contents -> Contents \cup Torns \cup {Null}]
  BY DEF FreeSlot, FileInv, Shape
<1>4. Posted(f, Whole(f)) \in Call /\ Posted(f, Whole(f)).pc = "arrived"
  BY PostedShape, WholeContent DEF Recording
<1>5. /\ call' \in [Slot -> Call] /\ call'[r] = Posted(f, Whole(f))
      /\ \A o \in Slot : o # r => call'[o] = call[o]
  BY <1>2, <1>3, <1>4
<1>6. UniqueInv'
  <2>1. \A o \in Slot : call'[o].pc = "inserted" => o # r /\ call'[o] = call[o]
    BY <1>4, <1>5
  <2> QED
    BY <1>1, <2>1 DEF FileInv, UniqueInv, Hashes
<1>7. RowsShape' /\ Hashes' = Hashes /\ RowsInv'
  BY <1>1 DEF FileInv, Shape, RowsShape, RowsInv, Hashes
<1> QED
  BY <1>1, <1>3, <1>5, <1>6, <1>7, CallsMove

-----------------------------------------------------------------------------
(* What the pool does changes the stage and the events of rows only.         *)
LEMMA RowsStay ==
  ASSUME RowsShape, rows' = [i \in DOMAIN rows |-> rows'[i]],
         \A i \in DOMAIN rows : /\ {"rec", "hash", "stage", "found"} \subseteq DOMAIN rows'[i]
                                /\ rows'[i].rec = rows[i].rec /\ rows'[i].hash = rows[i].hash
  PROVE  RowsShape' /\ Hashes' = Hashes /\ DOMAIN rows' = DOMAIN rows
<1> DEFINE T == {rows'[i] : i \in DOMAIN rows'}
<1>1. DOMAIN rows' = DOMAIN rows
  OBVIOUS
<1>2. Len(rows) \in Nat /\ DOMAIN rows = 1 .. Len(rows)
  BY DEF RowsShape
<1>3. \A i \in DOMAIN rows : rows'[i] \in T
  BY <1>1
<1> HIDE DEF T
<1>4. rows' \in [1 .. Len(rows) -> T]
  BY <1>2, <1>3
<1>5. rows' \in Seq(T)
  BY <1>2, <1>4
<1>6. Hashes' = Hashes
  BY <1>1 DEF Hashes
<1>7. RowsShape'
  BY <1>1, <1>5 DEF RowsShape, T
<1> QED
  BY <1>1, <1>6, <1>7

LEMMA StageSet ==
  ASSUME RowsShape, NEW i \in DOMAIN rows, NEW stage,
         Stage(i, stage) \/ \E found : rows' = [rows EXCEPT ![i].stage = stage, ![i].found = found]
  PROVE  /\ RowsShape' /\ Hashes' = Hashes /\ DOMAIN rows' = DOMAIN rows
         /\ \A j \in DOMAIN rows : rows'[j].rec = rows[j].rec /\ rows'[j].hash = rows[j].hash
<1>1. {"rec", "hash", "stage", "found"} \subseteq DOMAIN rows[i]
  BY DEF RowsShape
<1>2. CASE Stage(i, stage)
  <2>1. rows' = [rows EXCEPT ![i].stage = stage]
    BY <1>2 DEF Stage
  <2>2. rows' = [j \in DOMAIN rows |-> IF j = i THEN [rows[i] EXCEPT !.stage = stage] ELSE rows[j]]
    BY <2>1
  <2>3. /\ DOMAIN [rows[i] EXCEPT !.stage = stage] = DOMAIN rows[i]
        /\ [rows[i] EXCEPT !.stage = stage].rec = rows[i].rec
        /\ [rows[i] EXCEPT !.stage = stage].hash = rows[i].hash
    BY <1>1
  <2>4. \A j \in DOMAIN rows : /\ {"rec", "hash", "stage", "found"} \subseteq DOMAIN rows'[j]
                               /\ rows'[j].rec = rows[j].rec /\ rows'[j].hash = rows[j].hash
    BY <1>1, <2>2, <2>3 DEF RowsShape
  <2>5. rows' = [j \in DOMAIN rows |-> rows'[j]]
    BY <2>2
  <2> QED
    BY <2>4, <2>5, RowsStay
<1>3. CASE \E found : rows' = [rows EXCEPT ![i].stage = stage, ![i].found = found]
  <2> PICK found : rows' = [rows EXCEPT ![i].stage = stage, ![i].found = found]
    BY <1>3
  <2> DEFINE x == [rows[i] EXCEPT !.stage = stage, !.found = found]
  <2>2. rows' = [j \in DOMAIN rows |-> IF j = i THEN x ELSE rows[j]]
    OBVIOUS
  <2>3. DOMAIN x = DOMAIN rows[i] /\ x.rec = rows[i].rec /\ x.hash = rows[i].hash
    BY <1>1
  <2> HIDE DEF x
  <2>4. \A j \in DOMAIN rows : /\ {"rec", "hash", "stage", "found"} \subseteq DOMAIN rows'[j]
                               /\ rows'[j].rec = rows[j].rec /\ rows'[j].hash = rows[j].hash
    BY <1>1, <2>2, <2>3 DEF RowsShape
  <2>5. rows' = [j \in DOMAIN rows |-> rows'[j]]
    BY <2>2
  <2> QED
    BY <2>4, <2>5, RowsStay
<1> QED
  BY <1>2, <1>3

(* Rows that are as before, as far as the invariant looks at them.           *)
LEMMA StageKeeps ==
  ASSUME FileInv,
         UNCHANGED <<source, cold, call, producer, doubted, clipped>>,
         RowsShape', Hashes' = Hashes, DOMAIN rows' = DOMAIN rows,
         \A j \in DOMAIN rows : rows'[j].rec = rows[j].rec /\ rows'[j].hash = rows[j].hash
  PROVE  FileInv'
<1>1. RowsInv'
  BY DEF FileInv, RowsInv
<1>2. Shape' /\ ProducersInv' /\ CallsInv'
  BY DEF FileInv, Shape, ProducersInv, CallsInv, Finished
<1>3. PostingInv' /\ UniqueInv' /\ RemovedOnlyWhenStored'
  BY DEF FileInv, PostingInv, UniqueInv, RemovedOnlyWhenStored
<1> QED
  BY <1>1, <1>2, <1>3 DEF FileInv

LEMMA JobKeeps ==
  ASSUME FileInv, JobWork, UNCHANGED ingestVars
  PROVE  FileInv'
<1>1. UNCHANGED <<source, cold, call, producer, doubted, clipped>>
  BY DEF JobWork, SubmitJob, EndJob, storageVars, ingestVars
<1>2. PICK i \in DOMAIN rows : SubmitJob(i) \/ EndJob(i)
  BY DEF JobWork
<1>3. RowsShape
  BY DEF FileInv, Shape
<1>4. \E stage : \/ Stage(i, stage)
                 \/ \E found : rows' = [rows EXCEPT ![i].stage = stage, ![i].found = found]
  <2>1. CASE SubmitJob(i)
    BY <2>1 DEF SubmitJob
  <2>2. CASE EndJob(i)
    <3>1. PICK c \in Readings(rows[i].name) :
            \/ rows' = [rows EXCEPT ![i].stage = "done",
                          ![i].found = Findings[rows[i].rec][c.rec][c.frames]]
            \/ Stage(i, "failed")
      BY <2>2 DEF EndJob
    <3> QED
      BY <3>1
  <2> QED
    BY <1>2, <2>1, <2>2
<1>5. /\ RowsShape' /\ Hashes' = Hashes /\ DOMAIN rows' = DOMAIN rows
      /\ \A j \in DOMAIN rows : rows'[j].rec = rows[j].rec /\ rows'[j].hash = rows[j].hash
  BY <1>3, <1>4, StageSet
<1> QED
  BY <1>1, <1>5, StageKeeps

LEMMA LostRows ==
  ASSUME RowsShape, NEW Those, NEW stage,
         rows' = [i \in DOMAIN rows |-> IF rows[i].stage \in Those
                                        THEN [rows[i] EXCEPT !.stage = stage] ELSE rows[i]]
  PROVE  /\ RowsShape' /\ Hashes' = Hashes /\ DOMAIN rows' = DOMAIN rows
         /\ \A j \in DOMAIN rows : rows'[j].rec = rows[j].rec /\ rows'[j].hash = rows[j].hash
<1>1. \A i \in DOMAIN rows : /\ {"rec", "hash", "stage", "found"} \subseteq DOMAIN rows'[i]
                             /\ rows'[i].rec = rows[i].rec /\ rows'[i].hash = rows[i].hash
  <2> SUFFICES ASSUME NEW i \in DOMAIN rows
               PROVE  /\ {"rec", "hash", "stage", "found"} \subseteq DOMAIN rows'[i]
                      /\ rows'[i].rec = rows[i].rec /\ rows'[i].hash = rows[i].hash
    OBVIOUS
  <2>1. {"rec", "hash", "stage", "found"} \subseteq DOMAIN rows[i]
    BY DEF RowsShape
  <2>2. rows'[i] = rows[i] \/ rows'[i] = [rows[i] EXCEPT !.stage = stage]
    OBVIOUS
  <2> QED
    BY <2>1, <2>2
<1>2. rows' = [j \in DOMAIN rows |-> rows'[j]]
  OBVIOUS
<1> QED
  BY <1>1, <1>2, RowsStay

LEMMA WorkerDiesKeeps ==
  ASSUME FileInv, WorkerDies, UNCHANGED ingestVars
  PROVE  FileInv'
<1>1. UNCHANGED <<source, cold, call, producer, doubted, clipped>>
  BY DEF WorkerDies, ingestVars
<1>2. rows' = [i \in DOMAIN rows |-> IF rows[i].stage \in {"submitted"}
                                     THEN [rows[i] EXCEPT !.stage = "failed"] ELSE rows[i]]
  BY DEF WorkerDies
<1>3. RowsShape
  BY DEF FileInv, Shape
<1> QED
  BY <1>1, <1>2, <1>3, LostRows, StageKeeps

(* The API dies: whoever waits for an open request gets a broken connection. *)
LEMMA ApiRestartsKeeps ==
  ASSUME FileInv, ApiRestarts, UNCHANGED ingestVars
  PROVE  FileInv'
<1>1. UNCHANGED <<source, cold, producer, doubted, clipped>>
  BY DEF ApiRestarts, ingestVars
<1>2. /\ rows' = [i \in DOMAIN rows |-> IF rows[i].stage \in {"queued", "submitted"}
                                        THEN [rows[i] EXCEPT !.stage = "lost"] ELSE rows[i]]
      /\ call' = [r \in Slot |-> IF call[r].pc \in {"free", "answered"} THEN call[r]
                                 ELSE Answered(call[r], 0)]
  BY DEF ApiRestarts
<1>3. /\ RowsShape /\ call \in [Slot -> Call]
      /\ cold \in [Contents -> Contents \cup Torns \cup {Null}]
  BY DEF FileInv, Shape
<1>4. /\ RowsShape' /\ Hashes' = Hashes /\ DOMAIN rows' = DOMAIN rows
      /\ \A j \in DOMAIN rows : rows'[j].rec = rows[j].rec /\ rows'[j].hash = rows[j].hash
  BY <1>2, <1>3, LostRows
<1>5. ASSUME NEW r \in Slot
      PROVE  /\ call'[r] \in Call
             /\ call'[r].pc # "inserted"
             /\ call'[r] # call[r] =>
                  /\ call[r].pc \in {"arrived", "hashed", "inserted"}
                  /\ \E code \in {0, 201, 406, 422, 500} :
                       /\ call'[r] = Answered(call[r], code)
                       /\ \A s \in Station :
                            Serves(s, r) /\ call[r].rec \notin clipped /\ code \in {201, 406} =>
                              Whole(call[r].rec) \in Hashes'
  <2>1. call[r] \in Call /\ call[r].pc \in {"free", "arrived", "hashed", "inserted", "answered"}
    BY <1>3 DEF Call
  <2>2. CASE call[r].pc \in {"free", "answered"}
    BY <1>2, <2>1, <2>2
  <2>3. CASE call[r].pc \notin {"free", "answered"}
    <3>1. call'[r] = Answered(call[r], 0)
      BY <1>2, <2>3
    <3>2. NoCall.pc # "inserted"
      BY DEF NoCall
    <3>3. Answered(call[r], 0) \in Call /\ Answered(call[r], 0).pc # "inserted"
      BY <2>1, <3>2, AnsweredShape
    <3> QED
      BY <2>1, <2>3, <3>1, <3>3
  <2> QED
    BY <2>2, <2>3
<1>6. call' \in [Slot -> Call]
  BY <1>2, <1>5
<1>7. UniqueInv'
  BY <1>5 DEF UniqueInv
<1>8. RowsInv'
  BY <1>1, <1>4 DEF FileInv, RowsInv
<1> QED
  BY <1>1, <1>3, <1>4, <1>5, <1>6, <1>7, <1>8, CallsMove

(* Directories that go and come, stations that are registered.               *)
LEMMA AsideKeeps ==
  ASSUME FileInv, UNCHANGED <<source, cold, call, rows, producer, doubted, clipped>>
  PROVE  FileInv'
<1>1. RowsShape' /\ Hashes' = Hashes
  BY DEF FileInv, Shape, RowsShape, Hashes
<1> QED
  BY <1>1, StageKeeps

LEMMA IngestKeeps ==
  ASSUME FileInv, IngestStep, UNCHANGED pool
  PROVE  FileInv'
<1>1. CASE IngestionRestarts
  BY <1>1, RestartKeeps
<1>2. ASSUME NEW s \in Station, ProducerWork(s) PROVE FileInv'
  BY <1>2, Listing, TakeFileKeeps, StartCopyKeeps, ForwardKeeps, AnswerHandled, GivenUp
  DEF ProducerWork
<1>3. ASSUME NEW s \in Station, UnlinkFails(s) \/ PostTimesOut(s) PROVE FileInv'
  BY <1>3, AnswerHandled, GivenUp
<1>4. ASSUME NEW s \in Station, DirVanishes(s) \/ DirReturns(s) PROVE FileInv'
  BY <1>4, AsideKeeps DEF DirVanishes, DirReturns, intakeVars, storageVars
<1> QED
  BY <1>1, <1>2, <1>3, <1>4 DEF IngestStep

LEMMA FileStep == FileInv /\ [Next]_vars => FileInv'
<1> SUFFICES ASSUME FileInv, [Next]_vars PROVE FileInv'
  OBVIOUS
<1>1. CASE CameraStep /\ UNCHANGED <<intakeVars, ingestVars, pool>>
  BY <1>1, CameraKeeps
<1>2. CASE IngestStep /\ UNCHANGED pool
  BY <1>2, IngestKeeps
<1>3. CASE IntakeStep /\ UNCHANGED <<ingestVars, pool>>
  <2>1. UNCHANGED ingestVars
    BY <1>3
  <2>2. ASSUME NEW r \in Slot, CallWork(r) \/ CallFails(r) PROVE FileInv'
    BY <2>1, <2>2, HashFileKeeps, InsertRowKeeps, CommitRowKeeps, CallFailsKeeps DEF CallWork
  <2>3. ASSUME NEW s \in Station, RegisterStation(s) PROVE FileInv'
    BY <2>1, <2>3, AsideKeeps DEF RegisterStation, ingestVars, storageVars
  <2> QED
    BY <1>3, <2>1, <2>2, <2>3, UploadKeeps DEF IntakeStep
<1>4. CASE ExecutorStep /\ UNCHANGED ingestVars
  BY <1>4, JobKeeps, WorkerDiesKeeps, ApiRestartsKeeps DEF ExecutorStep
<1>5. CASE UNCHANGED vars
  BY <1>5, AsideKeeps DEF vars, storageVars, intakeVars, ingestVars
<1> QED
  BY <1>1, <1>2, <1>3, <1>4, <1>5 DEF Next

(* Whatever times out, fails, is cancelled or dies, and however many cameras *)
(* there are: a finished file is only removed from its directory when the    *)
(* whole of it is in the table and in cold storage.                          *)
THEOREM NoFileLost == Spec => []RemovedOnlyWhenStored
<1>1. FileInv => RemovedOnlyWhenStored
  BY DEF FileInv
<1> QED
  BY <1>1, InitFile, FileStep, PTL DEF Spec

-----------------------------------------------------------------------------
(* Towards Delivery: what was ever doubted has been accepted, so a request   *)
(* is always about something that has.                                       *)
AcceptedInv == \A f \in doubted : source[f].at # "nowhere"

PathInv == FileInv /\ AcceptedInv

Log == [i \in DOMAIN rows |-> {rows[i].rec}]

LEMMA LogIsTable == Promise!Entered = InTable
  BY DEF Promise!Entered, InTable

LEMMA ItemPending ==
  ASSUME FileInv, NEW s \in Station, producer[s].pc \in Busy
  PROVE  producer[s].item \in Pending /\ producer[s].item \in Recorded
         /\ source[producer[s].item].at = "queue"
<1>1. producer[s].item \in Recorded /\ source[producer[s].item].at = "queue"
  BY DEF FileInv, ProducersInv
<1>2. producer[s].item \notin Uploaded
  BY <1>1, RecordingAssumption
<1> QED
  BY <1>1, <1>2 DEF Pending, Accepted

LEMMA CalledAccepted ==
  ASSUME PathInv, NEW r \in Slot, call[r].pc # "free"
  PROVE  call[r].rec \in Accepted
<1>1. call[r].rec \in Recording
  BY DEF PathInv, FileInv, CallsInv
<1>2. CASE call[r].rec \in Recorded
  <2>1. Home[call[r].rec] \in Station
    BY <1>2, RecordingAssumption
  <2>2. CASE call[r].rec \in doubted
    BY <1>2, <2>2 DEF PathInv, AcceptedInv, Accepted
  <2>3. CASE Serves(Home[call[r].rec], r)
    <3>1. producer[Home[call[r].rec]].item = call[r].rec
      BY <2>1, <2>3 DEF PathInv, FileInv, PostingInv, Serves
    <3> QED
      BY <2>1, <2>3, <3>1, ItemPending DEF PathInv, Serves, Busy, Pending
  <2> QED
    BY <1>2, <2>2, <2>3 DEF PathInv, FileInv, CallsInv, Serves
<1> QED
  BY <1>1, <1>2 DEF Accepted, Recording

(* What is settled stays settled if files do not come back, nothing leaves   *)
(* the table, and requests are only opened about what is pending.            *)
LEMMA NothingComesBack ==
  ASSUME \A f \in Recorded : /\ source'[f].at = "nowhere" <=> source[f].at = "nowhere"
                             /\ source'[f].at = "queue" => source[f].at = "queue",
         InTable \subseteq InTable',
         \A r \in Slot : call'[r].pc # "answered" /\ call'[r].rec \in Recording =>
           \/ call[r].pc # "answered" /\ call[r].rec = call'[r].rec
           \/ call'[r].rec \in Pending
  PROVE  Accepted' = Accepted /\ Pending' \in SUBSET Pending
<1>1. Accepted' = Accepted /\ Accepted \subseteq Recording
  BY DEF Accepted, Recording
<1>2. ASSUME NEW f \in Recording, Open(f)', f \in Accepted PROVE f \in Pending
  <2>1. PICK r \in Slot : call'[r].rec = f /\ call'[r].pc # "answered"
    BY <1>2 DEF Open
  <2>2. CASE call[r].pc # "answered" /\ call[r].rec = call'[r].rec
    <3>1. Open(f)
      BY <2>1, <2>2 DEF Open
    <3> QED
      BY <1>2, <3>1 DEF Pending
  <2> QED
    BY <2>1, <2>2
<1>3. ASSUME NEW f \in Pending' PROVE f \in Pending
  <2>1. f \in Accepted /\ f \in Recording
    BY <1>1, <1>3 DEF Pending
  <2>2. CASE Open(f)'
    BY <1>2, <2>1, <2>2
  <2>3. CASE f \in Uploaded /\ f \notin InTable'
    BY <2>1, <2>3 DEF Pending
  <2>4. CASE f \notin Uploaded /\ source'[f].at = "queue"
    BY <2>1, <2>4 DEF Pending, Recording
  <2> QED
    BY <1>3, <2>2, <2>3, <2>4 DEF Pending
<1> QED
  BY <1>1, <1>3

LEMMA DropStep ==
  ASSUME Accepted' = Accepted, Pending' \in SUBSET Pending, Log' = Log,
         UNCHANGED <<doubted, clipped>>
  PROVE  Promise!Next
  BY DEF Promise!Next, Promise!Drop, Log

(* The camera accepts a recording; a file that grows is as before.           *)
LEMMA CameraPromises ==
  ASSUME PathInv, CameraStep, UNCHANGED <<intakeVars, ingestVars, pool>>
  PROVE  [Promise!Next]_(Promise!vars) /\ AcceptedInv'
<1>1. UNCHANGED <<call, rows, doubted, clipped>>
  BY DEF intakeVars, ingestVars
<1>2. source \in [Recorded -> Source]
  BY DEF PathInv, FileInv, Shape
<1>3. ASSUME NEW f \in Recorded, CameraOpens(f)
      PROVE  Promise!Accept({f}) /\ AcceptedInv' /\ f \in Recording
  <2>1. /\ source[f].at = "nowhere" /\ source'[f].at = "queue"
        /\ \A g \in Recorded : g # f => source'[g] = source[g]
    BY <1>2, <1>3 DEF CameraOpens, Source
  <2>2. f \notin Uploaded /\ f \in Recording
    BY RecordingAssumption DEF Recording
  <2>3. f \notin Accepted /\ Accepted' = Accepted \cup {f}
    BY <2>1, <2>2 DEF Accepted
  <2>4. \A g \in Recording : Open(g)' <=> Open(g)
    BY <1>1 DEF Open
  <2>5. InTable' = InTable
    BY <1>1 DEF InTable
  <2>6. Pending' = Pending \cup {f}
    <3>1. \A g \in Recording : g # f => (g \in Pending' <=> g \in Pending)
      BY <2>1, <2>3, <2>4, <2>5 DEF Pending, Recording
    <3>2. f \in Pending'
      BY <2>1, <2>2, <2>3 DEF Pending
    <3>3. Pending \subseteq Recording /\ Pending' \subseteq Recording
      BY DEF Pending, Accepted, Recording
    <3> QED
      BY <3>1, <3>2, <3>3, <2>2
  <2>7. AcceptedInv'
    BY <1>1, <2>1 DEF PathInv, FileInv, Shape, AcceptedInv
  <2> QED
    BY <1>1, <2>2, <2>3, <2>6, <2>7 DEF Promise!Accept
<1>4. ASSUME NEW f \in Recorded, CameraWrites(f)
      PROVE  UNCHANGED Promise!vars /\ AcceptedInv'
  <2>1. \A g \in Recorded : source'[g].at = source[g].at
    BY <1>2, <1>4 DEF CameraWrites, Source
  <2>2. Accepted' = Accepted /\ InTable' = InTable
    BY <1>1, <2>1 DEF Accepted, InTable
  <2>3. Pending' = Pending
    BY <1>1, <2>1, <2>2 DEF Pending, Accepted, Open
  <2>4. AcceptedInv'
    BY <1>1, <2>1 DEF PathInv, FileInv, Shape, AcceptedInv
  <2> QED
    BY <1>1, <2>2, <2>3, <2>4 DEF Promise!vars
<1>5. ASSUME NEW f \in Recorded, CameraOpens(f) PROVE Promise!Next
  <2>1. PICK S : S = {f}
    OBVIOUS
  <2>2. Promise!Accept(S) /\ S \in SUBSET Recording
    BY <1>3, <1>5, <2>1
  <2> QED
    BY <2>2 DEF Promise!Next
<1> QED
  BY <1>3, <1>4, <1>5 DEF CameraStep

(* What the ingestion process does doubts files of the queue, at most.       *)
LEMMA IngestPromises ==
  ASSUME PathInv, FileInv', IngestStep, UNCHANGED pool
  PROVE  Promise!Next /\ AcceptedInv'
<1>1. source \in [Recorded -> Source] /\ call \in [Slot -> Call] /\ doubted \subseteq Recorded
  BY DEF PathInv, FileInv, Shape
<1>2. UNCHANGED rows
  BY DEF IngestStep, ProducerWork, StartProducer, ListDirectory, TakeFile, StartCopy, Forward,
         HandleAnswer, Wake, CancelProducer, UnlinkFails, PostTimesOut, DirVanishes, DirReturns,
         IngestionRestarts, intakeVars
<1>3. \A f \in Recorded : /\ source'[f].at = "nowhere" <=> source[f].at = "nowhere"
                          /\ source'[f].at = "queue" => source[f].at = "queue"
  <2>1. CASE source' = source
    BY <2>1
  <2>2. CASE \E s \in Station : HandleAnswer(s)
    <3>1. PICK s \in Station : HandleAnswer(s)
      BY <2>2
    <3>2. source[producer[s].item].at = "queue"
      BY <3>1, ItemPending DEF HandleAnswer, At, PathInv, Busy
    <3> QED
      BY <1>1, <3>1, <3>2 DEF HandleAnswer, Source
  <2> QED
    BY <2>1, <2>2
    DEF IngestStep, ProducerWork, StartProducer, ListDirectory, TakeFile, StartCopy, Forward,
         Wake, CancelProducer, UnlinkFails, PostTimesOut, DirVanishes, DirReturns,
         IngestionRestarts, storageVars
<1>4. \A r \in Slot : call'[r].pc # "answered" /\ call'[r].rec \in Recording =>
        \/ call[r].pc # "answered" /\ call[r].rec = call'[r].rec
        \/ call'[r].rec \in Pending
  <2>1. CASE call' = call
    BY <2>1
  <2>2. ASSUME NEW s \in Station, Forward(s)
        PROVE  \A r \in Slot : call'[r] = call[r] \/ call'[r].rec \in Pending
    <3>1. PICK r \in FreeSlot : call' = [call EXCEPT ![r] = Posted(producer[s].item, producer[s].name)]
      BY <2>2 DEF Forward
    <3>2. producer[s].item \in Pending
      BY <2>2, ItemPending DEF Forward, PathInv, Busy
    <3>3. Posted(producer[s].item, producer[s].name).rec = producer[s].item
      BY DEF Posted, NoCall
    <3> QED
      BY <1>1, <3>1, <3>2, <3>3 DEF FreeSlot
  <2>3. ASSUME NEW s \in Station, HandleAnswer(s) \/ UnlinkFails(s)
        PROVE  \A r \in Slot : call'[r] = call[r] \/ call'[r] = NoCall
    BY <1>1, <2>3 DEF HandleAnswer, UnlinkFails
  <2>4. ASSUME NEW S \in SUBSET Station, call' = CallsWithout(S)
        PROVE  \A r \in Slot : \/ call'[r] = call[r] \/ call'[r] = NoCall
                               \/ call'[r].rec = call[r].rec /\ call'[r].pc = call[r].pc
    BY <1>1, <2>4 DEF CallsWithout, Call
  <2>5. NoCall.rec \notin Recording
    BY RecordingAssumption DEF NoCall
  <2>6. \/ call' = call
        \/ \E s \in Station : Forward(s) \/ HandleAnswer(s) \/ UnlinkFails(s)
        \/ \E S \in SUBSET Station : call' = CallsWithout(S)
    BY DEF IngestStep, ProducerWork, StartProducer, ListDirectory, TakeFile, StartCopy,
         Wake, CancelProducer, PostTimesOut, DirVanishes, DirReturns,
         IngestionRestarts, intakeVars
  <2> QED
    BY <2>1, <2>2, <2>3, <2>4, <2>5, <2>6
<1> DEFINE Doubts(S) == /\ (doubted \cup clipped)' = doubted \cup clipped \cup S
                        /\ doubted' \subseteq doubted \cup (S \cap Recorded)
                        /\ \A f \in S \cap Recorded : source[f].at = "queue"
<1>5. \E S \in SUBSET Pending : Doubts(S)
  <2>1. ASSUME UNCHANGED <<doubted, clipped>> PROVE Doubts({})
    BY <2>1
  <2>2. ASSUME NEW s \in Station, TakeFile(s) PROVE \E S \in SUBSET Pending : Doubts(S)
    <3>1. PICK f \in producer[s].left :
            clipped' = IF s \notin dir \/ Finished(f) THEN clipped ELSE clipped \cup {f}
      BY <2>2 DEF TakeFile
    <3>2. f \in Recorded /\ source[f].at = "queue" /\ doubted' = doubted
      BY <2>2 DEF PathInv, FileInv, Shape, ProducersInv, Producer, TakeFile
    <3>3. f \in Pending
      BY <3>2, RecordingAssumption DEF Pending, Accepted
    <3>4. CASE clipped' = clipped \cup {f}
      <4>1. Doubts({f})
        BY <3>2, <3>4
      <4> HIDE DEF Doubts
      <4> QED
        BY <3>3, <4>1
    <3>5. CASE clipped' = clipped
      <4>1. Doubts({})
        BY <2>1, <3>2, <3>5
      <4> HIDE DEF Doubts
      <4> QED
        BY <4>1
    <3> QED
      BY <3>1, <3>4, <3>5
  <2>3. ASSUME NEW S \in SUBSET Station, doubted' = doubted \cup Abandoned(S), clipped' = clipped
        PROVE  \E T \in SUBSET Pending : Doubts(T)
    <3>1. \A f \in Abandoned(S) : f \in Pending /\ f \in Recorded /\ source[f].at = "queue"
      BY ItemPending DEF Abandoned, Waiting, PathInv, Busy
    <3>2. Doubts(Abandoned(S))
      BY <2>3, <3>1
    <3> HIDE DEF Doubts
    <3> QED
      BY <3>1, <3>2
  <2>4. ASSUME NEW s \in Station, HandleAnswer(s) PROVE \E S \in SUBSET Pending : Doubts(S)
    <3> DEFINE i == producer[s].item
    <3>1. i \in Pending /\ i \in Recorded /\ source[i].at = "queue"
      BY <2>4, ItemPending DEF HandleAnswer, At, PathInv, Busy
    <3>2. clipped' = clipped /\ (doubted' = doubted \/ doubted' = doubted \cup {i})
      BY <2>4 DEF HandleAnswer
    <3> HIDE DEF i
    <3>3. CASE doubted' = doubted \cup {i}
      <4>1. Doubts({i})
        BY <3>1, <3>2, <3>3
      <4> HIDE DEF Doubts
      <4> QED
        BY <3>1, <4>1
    <3>4. CASE doubted' = doubted
      <4>1. Doubts({})
        BY <2>1, <3>2, <3>4
      <4> HIDE DEF Doubts
      <4> QED
        BY <4>1
    <3> QED
      BY <3>2, <3>3, <3>4
  <2> HIDE DEF Doubts
  <2>5. ASSUME NEW s \in Station, PostTimesOut(s) \/ CancelProducer(s)
        PROVE  \E T \in SUBSET Pending : Doubts(T)
    <3>1. {s} \in SUBSET Station /\ doubted' = doubted \cup Abandoned({s}) /\ clipped' = clipped
      BY <2>5 DEF PostTimesOut, CancelProducer
    <3> QED
      BY <2>3, <3>1
  <2>6. ASSUME IngestionRestarts PROVE \E T \in SUBSET Pending : Doubts(T)
    <3>1. Station \in SUBSET Station /\ clipped' = clipped
          /\ doubted' = doubted \cup Abandoned(Station)
      BY <2>6 DEF IngestionRestarts
    <3> QED
      BY <2>3, <3>1
  <2>7. ASSUME NEW s \in Station,
               \/ StartProducer(s) \/ ListDirectory(s) \/ StartCopy(s) \/ Forward(s) \/ Wake(s)
               \/ UnlinkFails(s) \/ DirVanishes(s) \/ DirReturns(s)
        PROVE  UNCHANGED <<doubted, clipped>>
    BY <2>7 DEF StartProducer, ListDirectory, StartCopy, Forward, Wake, UnlinkFails,
                DirVanishes, DirReturns
  <2> QED
    BY <2>1, <2>2, <2>4, <2>5, <2>6, <2>7 DEF IngestStep, ProducerWork
<1>6. Accepted' = Accepted /\ Pending' \in SUBSET Pending
  <2>1. InTable \subseteq InTable'
    BY <1>2 DEF InTable
  <2> QED
    BY <1>3, <1>4, <2>1, NothingComesBack
<1>7. PICK S \in SUBSET Pending : Doubts(S)
  BY <1>5
<1>8. Promise!Doubt(S) /\ S \in SUBSET Recording
  BY <1>2, <1>6, <1>7 DEF Promise!Doubt, Pending, Accepted, Recording
<1>9. AcceptedInv'
  BY <1>1, <1>3, <1>7 DEF AcceptedInv, PathInv
<1> QED
  BY <1>8, <1>9 DEF Promise!Next

(* What a request is about when its row is flushed has no row, unless it was *)
(* doubted or clipped: the row would have the same hash.                     *)
LEMMA FlushedHash ==
  ASSUME FileInv, NEW r \in Slot, call[r].pc = "inserted",
         call[r].rec \notin doubted \cup clipped
  PROVE  call[r].hash = Whole(call[r].rec)
<1>1. call[r].rec \in Recording /\ call[r].rec \in Uploaded => call[r].hash = Whole(call[r].rec)
  BY DEF FileInv, CallsInv
<1>2. CASE call[r].rec \in Recorded
  <2>1. Home[call[r].rec] \in Station
    BY <1>2, RecordingAssumption
  <2>2. Serves(Home[call[r].rec], r)
    BY <1>2 DEF FileInv, CallsInv, Serves
  <2> QED
    BY <2>1, <2>2, ServedCall
<1> QED
  BY <1>1, <1>2 DEF FileInv, CallsInv, Recording

LEMMA FlushedNew ==
  ASSUME FileInv, NEW r \in Slot, call[r].pc = "inserted", call[r].rec \in InTable
  PROVE  call[r].rec \in doubted \cup clipped
<1>1. PICK i \in DOMAIN rows : rows[i].rec = call[r].rec
  BY DEF InTable
<1>2. rows[i].hash \in Hashes /\ call[r].hash \notin Hashes
  BY DEF FileInv, UniqueInv, Hashes
<1> QED
  BY <1>1, <1>2, FlushedHash DEF FileInv, RowsInv

LEMMA LogAppended ==
  ASSUME RowsShape, NEW x, rows' = Append(rows, x),
         {"rec", "hash", "stage", "found"} \subseteq DOMAIN x,
         x.rec \in Recording, x.hash \in Contents
  PROVE  Log' = Append(Log, {x.rec}) /\ InTable' = InTable \cup {x.rec}
<1>1. /\ \A i \in DOMAIN rows' : \/ i \in DOMAIN rows /\ rows'[i] = rows[i]
                                 \/ i = Len(rows) + 1 /\ rows'[i] = x
      /\ DOMAIN rows' = 1 .. Len(rows) + 1 /\ DOMAIN rows = 1 .. Len(rows)
      /\ Len(rows) \in Nat
  BY Appended
<1>2. /\ \A i \in 1 .. Len(rows) : i \in 1 .. Len(rows) + 1 /\ i # Len(rows) + 1 /\ rows'[i] = rows[i]
      /\ rows'[Len(rows) + 1] = x
      /\ Len(rows) + 1 \in 1 .. Len(rows) + 1 /\ Len(rows) + 1 \notin 1 .. Len(rows)
  BY <1>1
<1>3. Log \in Seq(SUBSET Recording) /\ Len(Log) = Len(rows)
  <2>1. \A i \in 1 .. Len(rows) : {rows[i].rec} \in SUBSET Recording
    BY <1>1 DEF RowsShape
  <2> QED
    BY <1>1, <2>1 DEF Log
<1>4. Log' = [i \in 1 .. Len(rows) + 1 |-> {rows'[i].rec}]
  BY <1>1 DEF Log
<1>5. {x.rec} \in SUBSET Recording
  OBVIOUS
<1>6. Append(Log, {x.rec}) =
        [i \in 1 .. Len(rows) + 1 |-> IF i \in 1 .. Len(rows) THEN Log[i] ELSE {x.rec}]
  BY <1>1, <1>3, <1>5
<1>7. \A i \in 1 .. Len(rows) + 1 :
        {rows'[i].rec} = IF i \in 1 .. Len(rows) THEN Log[i] ELSE {x.rec}
  BY <1>1, <1>2 DEF Log
<1>8. Log' = Append(Log, {x.rec})
  BY <1>4, <1>6, <1>7
<1>9. InTable' = InTable \cup {x.rec}
  BY <1>1, <1>2 DEF InTable
<1> QED
  BY <1>8, <1>9

LEMMA CommitPromises ==
  ASSUME PathInv, NEW r \in Slot, CommitRow(r), UNCHANGED ingestVars
  PROVE  Promise!Next /\ AcceptedInv'
<1> DEFINE x == [rec |-> call[r].rec, hash |-> call[r].hash, name |-> call[r].name,
                 stage |-> "queued", found |-> <<>>]
           f == call[r].rec
<1>1. /\ UNCHANGED <<source, doubted, clipped>>
      /\ call[r].pc = "inserted"
      /\ rows' = Append(rows, x) /\ call' = [call EXCEPT ![r] = Answered(call[r], 201)]
  BY DEF CommitRow, Answer, ingestVars, storageVars
<1>2. /\ call \in [Slot -> Call] /\ call[r] \in Call /\ RowsShape
      /\ f \in Recording /\ call[r].hash \in Contents
  BY <1>1 DEF PathInv, FileInv, Shape, CallsInv
<1>3. /\ {"rec", "hash", "stage", "found"} \subseteq DOMAIN x
      /\ x.rec = f /\ x.hash = call[r].hash
  OBVIOUS
<1> HIDE DEF x, f
<1>4. Log' = Append(Log, {f}) /\ InTable' = InTable \cup {f}
  BY <1>1, <1>2, <1>3, LogAppended
<1>5. f \in Pending
  <2>1. f \in Accepted
    BY <1>1, CalledAccepted DEF f
  <2> QED
    BY <1>1, <2>1 DEF Pending, Open, f
<1>6. \A o \in Slot : call'[o].pc # "answered" /\ call'[o].rec \in Recording =>
        call'[o] = call[o]
  <2>1. \A o \in Slot : o # r => call'[o] = call[o]
    BY <1>1, <1>2
  <2>2. call'[r] = Answered(call[r], 201)
    BY <1>1, <1>2
  <2>3. NoCall.rec \notin Recording
    BY RecordingAssumption DEF NoCall
  <2>4. Answered(call[r], 201).pc = "answered" \/ Answered(call[r], 201).rec \notin Recording
    BY <1>2, <2>3, AnsweredShape
  <2> QED
    BY <2>1, <2>2, <2>4
<1>7. Accepted' = Accepted /\ Pending' \in SUBSET Pending
  BY <1>1, <1>4, <1>6, NothingComesBack
<1>8. {f} \cap Promise!Entered \subseteq doubted \cup clipped
  BY <1>1, FlushedNew, LogIsTable DEF PathInv, f
<1>9. PICK S : S = {f}
  OBVIOUS
<1>10. Promise!Enter(S)
  BY <1>1, <1>4, <1>5, <1>7, <1>8, <1>9 DEF Promise!Enter, Log
<1>11. AcceptedInv'
  BY <1>1 DEF PathInv, AcceptedInv
<1> QED
  BY <1>2, <1>9, <1>10, <1>11 DEF Promise!Next

LEMMA IntakePromises ==
  ASSUME PathInv, IntakeStep, UNCHANGED <<ingestVars, pool>>
  PROVE  Promise!Next /\ AcceptedInv'
<1>1. ASSUME NEW r \in Slot, CommitRow(r) PROVE Promise!Next /\ AcceptedInv'
  BY <1>1, CommitPromises
<1>2. ASSUME UNCHANGED <<source, rows>>,
             \A r \in Slot : call'[r].pc # "answered" /\ call'[r].rec \in Recording =>
               \/ call[r].pc # "answered" /\ call[r].rec = call'[r].rec
               \/ call'[r].rec \in Pending
      PROVE  Promise!Next /\ AcceptedInv'
  <2>1. InTable \subseteq InTable' /\ Log' = Log
    BY <1>2 DEF InTable, Log
  <2>2. Accepted' = Accepted /\ Pending' \in SUBSET Pending
    BY <1>2, <2>1, NothingComesBack
  <2>3. UNCHANGED <<doubted, clipped>>
    BY DEF ingestVars
  <2>4. AcceptedInv'
    BY <1>2, <2>3 DEF PathInv, AcceptedInv
  <2> QED
    BY <2>1, <2>2, <2>3, <2>4, DropStep
<1>3. call \in [Slot -> Call]
  BY DEF PathInv, FileInv, Shape
<1>4. ASSUME NEW f \in Uploaded, Upload(f) PROVE Promise!Next /\ AcceptedInv'
  <2>1. PICK r \in FreeSlot : call' = [call EXCEPT ![r] = Posted(f, Whole(f))]
    BY <1>4 DEF Upload
  <2>2. f \notin InTable /\ f \in Pending
    BY <1>4 DEF Upload, InTable, Pending, Accepted
  <2>3. Posted(f, Whole(f)).rec = f
    BY DEF Posted, NoCall
  <2>4. UNCHANGED <<source, rows>>
    BY <1>4 DEF Upload, storageVars
  <2>5. \A o \in Slot : call'[o] = call[o] \/ call'[o].rec = f
    BY <1>3, <2>1, <2>3 DEF FreeSlot
  <2> QED
    BY <1>2, <2>2, <2>4, <2>5
<1>5. ASSUME NEW q \in Call, NEW code \in {0, 201, 406, 422, 500}
      PROVE  Answered(q, code).pc = "answered" \/ Answered(q, code).rec \notin Recording
  <2>1. NoCall.rec \notin Recording
    BY RecordingAssumption DEF NoCall
  <2> QED
    BY <2>1, AnsweredShape
<1>6. ASSUME NEW r \in Slot, HashFile(r) \/ InsertRow(r) \/ CallFails(r)
      PROVE  Promise!Next /\ AcceptedInv'
  <2>1. UNCHANGED <<source, rows>> /\ call[r].pc # "answered"
    BY <1>6 DEF HashFile, InsertRow, CallFails, storageVars
  <2>2. \/ \E code \in {422, 406, 500} : call' = [call EXCEPT ![r] = Answered(call[r], code)]
        \/ \E c : call' = [call EXCEPT ![r].pc = "hashed", ![r].hash = c]
        \/ call' = [call EXCEPT ![r].pc = "inserted"]
    BY <1>6 DEF HashFile, InsertRow, CallFails, Answer
  <2>3. \A o \in Slot : o # r => call'[o] = call[o]
    BY <1>3, <2>2
  <2>4. call'[r].pc = "answered" \/ call'[r].rec \notin Recording \/ call'[r].rec = call[r].rec
    <3>1. CASE \E code \in {422, 406, 500} : call' = [call EXCEPT ![r] = Answered(call[r], code)]
      BY <1>3, <1>5, <3>1
    <3>2. CASE \E c : call' = [call EXCEPT ![r].pc = "hashed", ![r].hash = c]
      BY <1>3, <3>2 DEF Call
    <3>3. CASE call' = [call EXCEPT ![r].pc = "inserted"]
      BY <1>3, <3>3 DEF Call
    <3> QED
      BY <2>2, <3>1, <3>2, <3>3
  <2> QED
    BY <1>2, <2>1, <2>3, <2>4
<1>7. ASSUME NEW s \in Station, RegisterStation(s) PROVE Promise!Next /\ AcceptedInv'
  BY <1>2, <1>7 DEF RegisterStation, storageVars
<1> QED
  BY <1>1, <1>4, <1>6, <1>7 DEF IntakeStep, CallWork

LEMMA ExecutorPromises ==
  ASSUME PathInv, ExecutorStep, UNCHANGED ingestVars
  PROVE  Promise!Next /\ AcceptedInv'
<1>1. RowsShape /\ call \in [Slot -> Call]
  BY DEF PathInv, FileInv, Shape
<1>2. UNCHANGED <<source, doubted, clipped>>
  BY DEF ExecutorStep, JobWork, SubmitJob, EndJob, WorkerDies, ApiRestarts, ingestVars, storageVars
<1>3. /\ DOMAIN rows' = DOMAIN rows
      /\ \A j \in DOMAIN rows : rows'[j].rec = rows[j].rec
  <2>1. ASSUME NEW i \in DOMAIN rows, SubmitJob(i) \/ EndJob(i)
        PROVE  /\ DOMAIN rows' = DOMAIN rows
               /\ \A j \in DOMAIN rows : rows'[j].rec = rows[j].rec
    <3>1. \E stage : \/ Stage(i, stage)
                     \/ \E found : rows' = [rows EXCEPT ![i].stage = stage, ![i].found = found]
      BY <2>1 DEF SubmitJob, EndJob
    <3> QED
      BY <1>1, <3>1, StageSet
  <2>2. ASSUME WorkerDies
        PROVE  /\ DOMAIN rows' = DOMAIN rows
               /\ \A j \in DOMAIN rows : rows'[j].rec = rows[j].rec
    <3>1. rows' = [i \in DOMAIN rows |-> IF rows[i].stage \in {"submitted"}
                                         THEN [rows[i] EXCEPT !.stage = "failed"] ELSE rows[i]]
      BY <2>2 DEF WorkerDies
    <3> QED
      BY <1>1, <3>1, LostRows
  <2>3. ASSUME ApiRestarts
        PROVE  /\ DOMAIN rows' = DOMAIN rows
               /\ \A j \in DOMAIN rows : rows'[j].rec = rows[j].rec
    <3>1. rows' = [i \in DOMAIN rows |-> IF rows[i].stage \in {"queued", "submitted"}
                                         THEN [rows[i] EXCEPT !.stage = "lost"] ELSE rows[i]]
      BY <2>3 DEF ApiRestarts
    <3> QED
      BY <1>1, <3>1, LostRows
  <2> QED
    BY <2>1, <2>2, <2>3 DEF ExecutorStep, JobWork
<1>4. InTable' = InTable /\ Log' = Log
  BY <1>3 DEF InTable, Log
<1>5. \A r \in Slot : call'[r].pc # "answered" /\ call'[r].rec \in Recording => call'[r].rec = call[r].rec /\ call[r].pc # "answered"
  <2>1. CASE call' = call
    BY <2>1
  <2>2. CASE ApiRestarts
    <3>1. NoCall.rec \notin Recording
      BY RecordingAssumption DEF NoCall
    <3>2. \A r \in Slot : \/ Answered(call[r], 0).pc = "answered"
                          \/ Answered(call[r], 0).rec \notin Recording
      BY <1>1, <3>1, AnsweredShape
    <3> QED
      BY <2>2, <3>2 DEF ApiRestarts
  <2> QED
    BY <2>1, <2>2 DEF ExecutorStep, JobWork, SubmitJob, EndJob, WorkerDies
<1>6. Accepted' = Accepted /\ Pending' \in SUBSET Pending
  BY <1>2, <1>4, <1>5, NothingComesBack
<1>7. AcceptedInv'
  BY <1>2 DEF PathInv, AcceptedInv
<1> QED
  BY <1>2, <1>4, <1>6, <1>7, DropStep

(* The way of a video file implements Delivery: a recording is registered at *)
(* most once unless a POST about it went unanswered or it was taken before   *)
(* it was finished, and what was given up is never registered.               *)
THEOREM FilesDelivered == Spec => KeepsPromise
<1>1. Init => Promise!Init /\ PathInv
  <2> SUFFICES ASSUME Init PROVE Promise!Init /\ PathInv
    OBVIOUS
  <2>1. /\ rows = <<>> /\ doubted = {} /\ clipped = {}
        /\ \A f \in Recorded : source[f].at = "nowhere"
    BY DEF Init, StorageInit, IntakeInit, IngestInit
  <2>2. Accepted = Uploaded /\ InTable = {} /\ Log = <<>>
    BY <2>1 DEF Accepted, InTable, Log
  <2>3. Pending = Accepted
    BY <2>2 DEF Pending
  <2>4. PathInv
    BY <2>1, InitFile DEF PathInv, AcceptedInv
  <2> QED
    BY <2>1, <2>2, <2>3, <2>4 DEF Promise!Init, Log, Recording
<1>2. PathInv /\ [Next]_vars => PathInv' /\ [Promise!Next]_(Promise!vars)
  <2> SUFFICES ASSUME PathInv, [Next]_vars PROVE PathInv' /\ [Promise!Next]_(Promise!vars)
    OBVIOUS
  <2>1. FileInv'
    BY FileStep DEF PathInv
  <2>2. CASE UNCHANGED vars
    <3>1. UNCHANGED Promise!vars
      BY <2>2 DEF vars, storageVars, intakeVars, ingestVars, Promise!vars, Pending, Accepted,
                  Open, InTable
    <3>2. AcceptedInv'
      BY <2>2 DEF vars, storageVars, ingestVars, PathInv, AcceptedInv
    <3> QED
      BY <2>1, <3>1, <3>2 DEF PathInv
  <2> QED
    BY <2>1, <2>2, CameraPromises, IngestPromises, IntakePromises, ExecutorPromises
    DEF Next, PathInv
<1> QED
  BY <1>1, <1>2, PTL DEF Spec, Promise!Spec, KeepsPromise

(* Delivery's own theorem, read of this path.                                *)
Once == INSTANCE Delivery_proofs WITH
    Item     <- Recording,
    accepted <- Accepted,
    pending  <- Pending,
    doubted  <- doubted \cup clipped,
    log      <- [i \in DOMAIN rows |-> {rows[i].rec}]

(* No recording has two rows of video_files unless a POST about it went      *)
(* unanswered or it was taken before the camera had finished it.             *)
RegisteredOnce ==
    \A i, j \in DOMAIN rows : i # j /\ rows[i].rec = rows[j].rec => rows[i].rec \in doubted \cup clipped

(* Retries, overlapping requests, restarts and cancelled producers register  *)
(* no recording a second time, but for those doubted or clipped ones.        *)
THEOREM NeverRegisteredTwice == Spec => []RegisteredOnce
<1>1. Once!Spec => []Once!EnteredOnce
  BY Once!NeverEnteredTwice
<1>2. Once!EnteredOnce => RegisteredOnce
  BY DEF Once!EnteredOnce, RegisteredOnce
<1>3. Promise!Init <=> Once!Init
  BY DEF Promise!Init, Once!Init
<1>4. [Promise!Next]_(Promise!vars) <=> [Once!Next]_(Once!vars)
  BY DEF Promise!Next, Once!Next, Promise!vars, Once!vars, Promise!Accept, Once!Accept,
      Promise!Doubt, Once!Doubt, Promise!Enter, Once!Enter, Promise!Drop, Once!Drop,
      Promise!Entered, Once!Entered
<1> QED
  BY <1>1, <1>2, <1>3, <1>4, FilesDelivered, PTL
  DEF KeepsPromise, Promise!Spec, Once!Spec

-----------------------------------------------------------------------------

Event == [frame : Nat, id : Nat, inside : BOOLEAN]

(* There are only so many places in a clip.                                  *)
LEMMA PlacesFinite ==
  ASSUME NEW frames \in Seq(Frame)
  PROVE  IsFiniteSet(Detected(frames))
<1> DEFINE At1(n) == {n} \X DOMAIN frames[n].markers
           D == DOMAIN frames
           P == {At1(n) : n \in D}
<1>1. D = 1 .. Len(frames) /\ Len(frames) \in Nat
  OBVIOUS
<1>2. IsFiniteSet(D)
  BY <1>1, FS_Interval
<1>3. \A n \in D : IsFiniteSet(At1(n))
  <2> SUFFICES ASSUME NEW n \in D PROVE IsFiniteSet(At1(n))
    OBVIOUS
  <2>1. frames[n] \in Frame
    OBVIOUS
  <2>2. frames[n].markers \in Seq(Marker)
    BY <2>1 DEF Frame
  <2>3. DOMAIN frames[n].markers = 1 .. Len(frames[n].markers) /\ Len(frames[n].markers) \in Nat
    BY <2>2
  <2>4. IsFiniteSet(DOMAIN frames[n].markers)
    BY <2>3, FS_Interval
  <2>5. IsFiniteSet({n})
    BY FS_Singleton
  <2> QED
    BY <2>4, <2>5, FS_Product
<1>4. IsFiniteSet(P)
  <2> DEFINE g == [n \in D |-> At1(n)]
  <2>1. g \in Surjection(D, P)
    BY DEF Surjection
  <2> HIDE DEF g, P, D
  <2> QED
    BY <1>2, <2>1, FS_Surjection
<1>5. \A S \in P : IsFiniteSet(S)
  BY <1>3
<1>6. IsFiniteSet(UNION P)
  <2> HIDE DEF P
  <2> QED
    BY <1>4, <1>5, FS_UNION
<1>7. Detected(frames) \in SUBSET (UNION P)
  BY DEF Detected, Places
<1> QED
  BY <1>6, <1>7, FS_Subset

(* What a marker's place is: numbers, and where they lead.                   *)
LEMMA PlaceOf ==
  ASSUME NEW frames \in Seq(Frame), NEW p \in Detected(frames)
  PROVE  /\ p = <<p[1], p[2]>> /\ p[1] \in Nat \ {0} /\ p[2] \in Nat \ {0}
         /\ p[1] \in DOMAIN frames
         /\ frames[p[1]].markers[p[2]] \in Marker
<1>1. PICK n \in DOMAIN frames : p \in {n} \X DOMAIN frames[n].markers
  BY DEF Detected, Places
<1>2. n \in Nat \ {0} /\ frames[n] \in Frame
  OBVIOUS
<1>3. frames[n].markers \in Seq(Marker)
  BY <1>2 DEF Frame
<1>4. p = <<p[1], p[2]>> /\ p[1] = n /\ p[2] \in DOMAIN frames[n].markers
  BY <1>1
<1>5. p[2] \in 1 .. Len(frames[n].markers) /\ Len(frames[n].markers) \in Nat
  BY <1>3, <1>4
<1> QED
  BY <1>2, <1>3, <1>4, <1>5

LEMMA EarlierOrders ==
  ASSUME NEW frames \in Seq(Frame)
  PROVE  StrictOrder(Detected(frames), Earlier(Detected(frames)))
<1> DEFINE S == Detected(frames)
<1>1. \A p \in S : p = <<p[1], p[2]>> /\ p[1] \in Nat /\ p[2] \in Nat
  BY PlaceOf
<1> HIDE DEF S
<1>2. \A p, q \in S : <<p, q>> \in Earlier(S) <=>
                        p[1] < q[1] \/ (p[1] = q[1] /\ p[2] < q[2])
  BY DEF Earlier
<1>3. \A p, q \in S : p # q => p[1] # q[1] \/ p[2] # q[2]
  BY <1>1
<1>4. \A p \in S : <<p, p>> \notin Earlier(S)
  BY <1>1, <1>2
<1>5. \A p, q \in S : p # q => <<p, q>> \in Earlier(S) \/ <<q, p>> \in Earlier(S)
  BY <1>1, <1>2, <1>3
<1>6. \A p, q, r \in S : <<p, q>> \in Earlier(S) /\ <<q, r>> \in Earlier(S) => <<p, r>> \in Earlier(S)
  BY <1>1, <1>2
<1> QED
  BY <1>4, <1>5, <1>6 DEF StrictOrder, S

(* What `process_video' returns: one event for every marker that counts, and *)
(* for no other, frame after frame.                                          *)
LEMMA EventsOf ==
  ASSUME NEW roi, NEW frames \in Seq(Frame)
  PROVE  LET E == Events(roi, frames)
         IN  /\ E \in Seq(Event) /\ Len(E) = Cardinality(Detected(frames))
             /\ \A a, b \in DOMAIN E : a < b => E[a].frame <= E[b].frame
             /\ \A p \in Detected(frames) : \E a \in DOMAIN E : E[a] = Emitted(roi, frames, p)
<1> DEFINE S == Detected(frames)
           R == Earlier(S)
           q == InOrder(S, R)
           n == Cardinality(S)
           E == Events(roi, frames)
<1>1. IsFiniteSet(S) /\ StrictOrder(S, R)
  BY PlacesFinite, EarlierOrders
<1> HIDE DEF S, R
<1>2. Sorts(q, S, R)
  BY <1>1, InOrderSorts
<1>3. n \in Nat
  BY <1>1, FS_CardinalityType
<1>4. q \in Seq(S) /\ Len(q) = n /\ DOMAIN q = 1 .. n
  BY <1>2 DEF Sorts
<1>5. E = [k \in 1 .. n |-> Emitted(roi, frames, q[k])]
  BY <1>4 DEF Events, S, R
<1> HIDE DEF q, n, E
<1>6. ASSUME NEW k \in 1 .. n
      PROVE  q[k] \in S /\ Emitted(roi, frames, q[k]) \in Event
             /\ Emitted(roi, frames, q[k]).frame = q[k][1] - 1 /\ q[k][1] \in Nat
  <2>1. q[k] \in S
    BY <1>3, <1>4
  <2>2. q[k][1] \in Nat \ {0} /\ frames[q[k][1]].markers[q[k][2]] \in Marker
    BY <2>1, PlaceOf DEF S
  <2>3. InsideRoi(roi, frames[q[k][1]].markers[q[k][2]]) \in BOOLEAN
    BY DEF InsideRoi
  <2> QED
    BY <2>1, <2>2, <2>3 DEF Emitted, Event, Marker
<1>7. E \in Seq(Event) /\ Len(E) = n /\ DOMAIN E = 1 .. n
  BY <1>3, <1>5, <1>6
<1>8. ASSUME NEW a \in 1 .. n, NEW b \in 1 .. n, a < b
      PROVE  E[a].frame <= E[b].frame
  <2>1. <<q[a], q[b]>> \in R
    BY <1>2, <1>4, <1>8 DEF Sorts
  <2>2. q[a][1] <= q[b][1]
    BY <2>1, <1>6 DEF R, Earlier
  <2> QED
    BY <1>5, <1>6, <2>2
<1>9. ASSUME NEW p \in S
      PROVE  \E a \in 1 .. n : E[a] = Emitted(roi, frames, p)
  BY <1>2, <1>4, <1>5 DEF Sorts
<1>10. /\ E \in Seq(Event) /\ Len(E) = n
       /\ \A a, b \in DOMAIN E : a < b => E[a].frame <= E[b].frame
       /\ \A p \in S : \E a \in DOMAIN E : E[a] = Emitted(roi, frames, p)
  BY <1>7, <1>8, <1>9
<1> QED
  BY <1>10 DEF S, E, n

-----------------------------------------------------------------------------
(* The rest of the shape: what a row found, and what FileInv does not need.  *)
RestInv ==
  /\ known \in SUBSET Station /\ dir \in SUBSET Station /\ recopied \in SUBSET Recorded
  /\ faults \in Nat /\ pool \in {"up", "broken"}
  /\ rows \in Seq(Row)

(* A name is torn only while a producer copies to it, and the final name of  *)
(* an upload is nobody's but the upload's.                                   *)
Copying(s) == producer[s].pc = "copying"

CopyInv ==
  /\ \A s \in Station : Copying(s) => cold[producer[s].name] = Torn(producer[s].item)
  /\ \A s, t \in Station : Copying(s) /\ Copying(t) => s = t
  /\ \A f \in Uploaded : cold[Whole(f)] \in {Null, Whole(f)}

(* A recording that was finished when it was taken, and copied once, is      *)
(* whole under its name, and nobody writes to it any more.                   *)
Intact(f, name) ==
  /\ cold[name] # Null
  /\ f \notin recopied \cup clipped => name = Whole(f) /\ cold[name] = Whole(f)

InHand(r) == call[r].pc \in {"arrived", "hashed", "inserted"}

HandsInv ==
  \A r \in Slot : InHand(r) =>
    /\ call[r].rec \in Uploaded => call[r].name = Whole(call[r].rec)
    /\ call[r].rec \in Recorded \/ call[r].pc = "inserted" => Intact(call[r].rec, call[r].name)

IntactInv == \A j \in DOMAIN rows : Intact(rows[j].rec, rows[j].name)

(* So a worker finds what there is to find, if nothing dies under it.        *)
Seen(f, row) ==
  /\ row.stage = "failed" => faults > 0
  /\ row.stage = "done" => row.found = Findings[f][f][Len(Clip[f])]

FoundInv ==
  /\ pool = "broken" => faults > 0
  /\ \A j \in DOMAIN rows :
       rows[j].rec \notin recopied \cup clipped => Seen(rows[j].rec, rows[j])

WholeInv == FileInv /\ RestInv /\ CopyInv /\ HandsInv /\ IntactInv /\ FoundInv

LEMMA InitWhole == Init => WholeInv
<1> SUFFICES ASSUME Init PROVE WholeInv
  OBVIOUS
<1> USE DEF Init, StorageInit, IntakeInit, IngestInit
<1>1. FileInv
  BY InitFile
<1>2. RestInv
  BY DEF RestInv
<1>3. CopyInv
  BY WholeContent DEF CopyInv, Copying, Off, Recording
<1>4. HandsInv
  BY DEF HandsInv, InHand, NoCall
<1>5. IntactInv /\ FoundInv
  BY DEF IntactInv, FoundInv
<1> QED
  BY <1>1, <1>2, <1>3, <1>4, <1>5 DEF WholeInv

-----------------------------------------------------------------------------
(* What is whole in cold storage stays whole, unless it is copied again: the *)
(* only writers are the producer whose recording it is, and an upload where  *)
(* there is nothing yet.                                                     *)
Settled ==
  /\ \A n \in Contents : cold[n] # Null => cold'[n] # Null
  /\ clipped \subseteq clipped' /\ recopied \subseteq recopied'
  /\ recopied' \in SUBSET Recorded
  /\ \A f \in Recording \ (clipped' \cup recopied') :
       cold[Whole(f)] = Whole(f) => cold'[Whole(f)] = Whole(f)
  /\ CopyInv'

LEMMA StartCopySettles ==
  ASSUME WholeInv, NEW s \in Station, StartCopy(s)
  PROVE  Settled
<1> DEFINE p == producer[s]
<1>1. /\ p.pc = "waiting" /\ p.pc \in Busy /\ LoopFree
      /\ clipped' = clipped
  BY DEF StartCopy, At, Busy
<1>2. /\ p.item \in Recorded /\ p.item \in Recording /\ p.item \notin Uploaded /\ p.name \in Contents
      /\ \A f \in Recording : f # p.item => Whole(f) # p.name
      /\ cold \in [Contents -> Contents \cup Torns \cup {Null}] /\ producer \in [Station -> Producer]
      /\ recopied \in SUBSET Recorded
  BY <1>1, ItemRecorded, NamesApart, RecordingAssumption
  DEF WholeInv, FileInv, ProducersInv, Shape, RestInv
<1>3. CASE s \in dir
  <2>1. /\ producer' = [producer EXCEPT ![s].pc = "copying"]
        /\ cold' = [cold EXCEPT ![p.name] = Torn(p.item)]
        /\ recopied' = IF cold[p.name] = Null THEN recopied ELSE recopied \cup {p.item}
    BY <1>3 DEF StartCopy
  <2>2. Torn(p.item) # Null
    BY <1>2, NullAssumption
  <2>3. /\ cold'[p.name] = Torn(p.item)
        /\ \A n \in Contents : n # p.name => cold'[n] = cold[n]
    BY <1>2, <2>1
  <2>4. \A f \in Recording \ (clipped' \cup recopied') :
          cold[Whole(f)] = Whole(f) => cold'[Whole(f)] = Whole(f)
    BY <1>2, <2>1, <2>3, WholeContent
  <2>5. /\ producer'[s].item = p.item /\ producer'[s].name = p.name
        /\ \A t \in Station : t # s => ~Copying(t)'
    BY <1>1, <1>2, <2>1 DEF LoopFree, Copying, Producer
  <2>6. \A f \in Uploaded : cold'[Whole(f)] = cold[Whole(f)]
    BY <1>2, <2>3, WholeContent DEF Recording
  <2>7. CopyInv'
    BY <2>3, <2>5, <2>6 DEF CopyInv, WholeInv
  <2> QED
    BY <1>1, <1>2, <2>1, <2>2, <2>3, <2>4, <2>7 DEF Settled
<1>4. CASE s \notin dir
  <2>1. UNCHANGED <<cold, recopied>> /\ producer' = [producer EXCEPT ![s] = Asleep]
    BY <1>4 DEF StartCopy
  <2>2. \A t \in Station : ~Copying(t)'
    BY <1>1, <1>2, <2>1 DEF LoopFree, Copying, Asleep, Off
  <2>3. CopyInv'
    BY <2>1, <2>2 DEF CopyInv, WholeInv
  <2> QED
    BY <1>1, <1>2, <2>1, <2>3 DEF Settled
<1> QED
  BY <1>3, <1>4

(* A copy comes to its end, or to an end.                                    *)
LEMMA CopyEnds ==
  ASSUME WholeInv, NEW s \in Station, Copying(s), NEW c \in Contents,
         cold' = [cold EXCEPT ![producer[s].name] = c],
         UNCHANGED <<clipped, recopied>>, \A t \in Station : ~Copying(t)'
  PROVE  Settled /\ cold'[producer[s].name] = c
<1> DEFINE p == producer[s]
<1>1. p.pc \in Busy
  BY DEF Copying, Busy
<1>2. /\ p.item \in Recorded /\ p.item \notin Uploaded /\ p.name \in Contents
      /\ cold[p.name] = Torn(p.item)
      /\ \A f \in Recording : f # p.item => Whole(f) # p.name
      /\ cold \in [Contents -> Contents \cup Torns \cup {Null}]
      /\ recopied \in SUBSET Recorded
  BY <1>1, ItemRecorded, NamesApart, RecordingAssumption
  DEF WholeInv, FileInv, ProducersInv, Shape, RestInv, CopyInv
<1>3. c # Null
  BY ContentParts
<1>4. /\ cold'[p.name] = c
      /\ \A n \in Contents : n # p.name => cold'[n] = cold[n]
  BY <1>2
<1>5. Torn(p.item).frames = -1
  BY DEF Torn
<1>6. \A f \in Recording : cold[Whole(f)] = Whole(f) => cold'[Whole(f)] = Whole(f)
  BY <1>2, <1>4, <1>5, WholeContent
<1>7. \A f \in Uploaded : cold'[Whole(f)] = cold[Whole(f)]
  BY <1>2, <1>4, WholeContent DEF Recording
<1>8. CopyInv'
  BY <1>7 DEF CopyInv, WholeInv
<1> QED
  BY <1>2, <1>3, <1>4, <1>6, <1>8 DEF Settled

(* A request puts an upload in its place.                                    *)
LEMMA InsertSettles ==
  ASSUME WholeInv, NEW r \in Slot, InsertRow(r), UNCHANGED ingestVars
  PROVE  /\ Settled
         /\ call[r].rec \in Uploaded /\ call[r].hash \notin Hashes =>
              cold'[Whole(call[r].rec)] = Whole(call[r].rec)
<1> DEFINE q == call[r]
<1>1. /\ q.pc = "hashed" /\ UNCHANGED <<clipped, recopied, producer>>
      /\ cold' = IF q.hash \notin Hashes /\ q.rec \in Uploaded /\ cold[q.name] = Null
                 THEN [cold EXCEPT ![q.name] = q.hash] ELSE cold
  BY DEF InsertRow, ingestVars
<1>2. /\ q.rec \in Uploaded => q.name = Whole(q.rec) /\ q.hash = Whole(q.rec)
      /\ q.name \in Contents
      /\ cold \in [Contents -> Contents \cup Torns \cup {Null}]
      /\ recopied \in SUBSET Recorded
      /\ \A f \in Uploaded : cold[Whole(f)] \in {Null, Whole(f)}
  BY <1>1 DEF WholeInv, HandsInv, InHand, FileInv, CallsInv, Shape, RestInv, CopyInv
<1>3. CASE cold' = cold
  <2>1. CopyInv'
    BY <1>1, <1>3 DEF WholeInv, CopyInv, Copying
  <2> QED
    BY <1>1, <1>2, <1>3, <2>1 DEF Settled
<1>4. CASE /\ q.hash \notin Hashes /\ q.rec \in Uploaded /\ cold[q.name] = Null
           /\ cold' = [cold EXCEPT ![q.name] = q.hash]
  <2>1. /\ cold'[Whole(q.rec)] = Whole(q.rec)
        /\ \A n \in Contents : n # Whole(q.rec) => cold'[n] = cold[n]
        /\ q.rec \in Recording /\ Whole(q.rec) # Null /\ cold[Whole(q.rec)] = Null
    BY <1>2, <1>4, WholeContent DEF Recording
  <2>2. \A n \in Contents : cold[n] # Null => cold'[n] = cold[n]
    BY <2>1
  <2>3. ASSUME NEW s \in Station, Copying(s)
        PROVE  producer[s].name \in Contents /\ cold[producer[s].name] # Null
    <3>1. /\ cold[producer[s].name] = Torn(producer[s].item)
          /\ producer[s].pc \in Busy
      BY <2>3 DEF WholeInv, CopyInv, Copying, Busy
    <3>2. producer[s].item \in Recorded /\ producer[s].name \in Contents
      BY <3>1 DEF WholeInv, FileInv, ProducersInv
    <3> QED
      BY <3>1, <3>2, NullAssumption
  <2>4. \A f \in Uploaded : cold'[Whole(f)] \in {Null, Whole(f)}
    BY <1>2, <2>1, WholeContent DEF Recording
  <2>5. CopyInv'
    BY <1>1, <2>2, <2>3, <2>4 DEF WholeInv, CopyInv, Copying
  <2>6. \A f \in Recording : cold[Whole(f)] = Whole(f) => cold'[Whole(f)] = Whole(f)
    BY <2>2, WholeContent
  <2> QED
    BY <1>1, <1>2, <2>1, <2>2, <2>5, <2>6 DEF Settled
<1> QED
  BY <1>1, <1>2, <1>3, <1>4

LEMMA QuietSettles ==
  ASSUME WholeInv, UNCHANGED <<cold, recopied>>, clipped \subseteq clipped',
         \A s \in Station : Copying(s)' =>
           /\ Copying(s)
           /\ producer'[s].item = producer[s].item /\ producer'[s].name = producer[s].name
  PROVE  Settled
<1>1. CopyInv'
  BY DEF WholeInv, CopyInv
<1> QED
  BY <1>1 DEF Settled, WholeInv, RestInv

-----------------------------------------------------------------------------
IntactAfter(f, name) ==
  /\ cold'[name] # Null
  /\ f \notin recopied' \cup clipped' => name = Whole(f) /\ cold'[name] = Whole(f)

(* Where a request in hand comes from: it was in hand, or a producer or a    *)
(* user has just sent it.                                                    *)
HandsFrom ==
  \A r \in Slot : InHand(r)' =>
    \/ /\ InHand(r)
       /\ call'[r].rec = call[r].rec /\ call'[r].name = call[r].name
       /\ call'[r].pc = "inserted" /\ call[r].pc # "inserted" /\ call[r].rec \in Uploaded =>
            cold'[Whole(call[r].rec)] = Whole(call[r].rec)
    \/ call'[r].rec \in Recorded /\ IntactAfter(call'[r].rec, call'[r].name)
    \/ /\ call'[r].rec \in Uploaded /\ call'[r].name = Whole(call'[r].rec)
       /\ call'[r].pc = "arrived"

(* And a row: it was there, or a request has just committed it.              *)
RowsFrom ==
  \A j \in DOMAIN rows' :
    \/ /\ j \in DOMAIN rows
       /\ rows'[j].rec = rows[j].rec /\ rows'[j].name = rows[j].name
    \/ \E r \in Slot : /\ call[r].pc = "inserted"
                       /\ rows'[j].rec = call[r].rec /\ rows'[j].name = call[r].name

LEMMA IntactStays ==
  ASSUME Settled, NEW f \in Recording, NEW n \in Contents, Intact(f, n)
  PROVE  IntactAfter(f, n)
  BY DEF Settled, Intact, IntactAfter

LEMMA HandsStep ==
  ASSUME WholeInv, Settled, HandsFrom
  PROVE  HandsInv'
<1> SUFFICES ASSUME NEW r \in Slot, InHand(r)'
             PROVE  /\ call'[r].rec \in Uploaded => call'[r].name = Whole(call'[r].rec)
                    /\ call'[r].rec \in Recorded \/ call'[r].pc = "inserted" =>
                         IntactAfter(call'[r].rec, call'[r].name)
  BY DEF HandsInv, Intact, IntactAfter
<1>1. Recorded \cap Uploaded = {} /\ \A f \in Uploaded : Whole(f) # Null /\ f \in Recording
  BY RecordingAssumption, WholeContent DEF Recording
<1>2. CASE /\ InHand(r)
           /\ call'[r].rec = call[r].rec /\ call'[r].name = call[r].name
           /\ call'[r].pc = "inserted" /\ call[r].pc # "inserted" /\ call[r].rec \in Uploaded =>
                cold'[Whole(call[r].rec)] = Whole(call[r].rec)
  <2>1. /\ call[r].rec \in Recording /\ call[r].name \in Contents
        /\ call[r].rec \in Recorded \/ call[r].rec \in Uploaded
    BY <1>2 DEF WholeInv, FileInv, CallsInv, InHand, Recording
  <2>2. /\ call[r].rec \in Uploaded => call[r].name = Whole(call[r].rec)
        /\ call[r].rec \in Recorded \/ call[r].pc = "inserted" => Intact(call[r].rec, call[r].name)
    BY <1>2 DEF WholeInv, HandsInv
  <2>3. CASE call[r].rec \in Recorded \/ call[r].pc = "inserted"
    BY <1>2, <2>1, <2>2, <2>3, IntactStays
  <2>4. CASE call[r].rec \in Uploaded /\ call[r].pc # "inserted"
    BY <1>1, <1>2, <2>2, <2>4 DEF IntactAfter
  <2> QED
    BY <2>1, <2>3, <2>4
<1>3. CASE call'[r].rec \in Recorded /\ IntactAfter(call'[r].rec, call'[r].name)
  BY <1>1, <1>3
<1>4. CASE /\ call'[r].rec \in Uploaded /\ call'[r].name = Whole(call'[r].rec)
           /\ call'[r].pc = "arrived"
  BY <1>1, <1>4
<1> QED
  BY <1>2, <1>3, <1>4 DEF HandsFrom

LEMMA RowShape ==
  ASSUME RestInv, NEW j \in DOMAIN rows
  PROVE  /\ rows[j] \in Row /\ rows[j].rec \in Recording /\ rows[j].name \in Contents
         /\ rows[j].stage \in {"queued", "submitted", "done", "failed", "lost"}
<1>1. rows \in Seq(Row)
  BY DEF RestInv
<1>2. rows[j] \in Row
  BY <1>1
<1> QED
  BY <1>2 DEF Row

LEMMA IntactStep ==
  ASSUME WholeInv, Settled, RowsFrom
  PROVE  IntactInv'
<1> SUFFICES ASSUME NEW j \in DOMAIN rows' PROVE IntactAfter(rows'[j].rec, rows'[j].name)
  BY DEF IntactInv, Intact, IntactAfter
<1>1. CASE /\ j \in DOMAIN rows
           /\ rows'[j].rec = rows[j].rec /\ rows'[j].name = rows[j].name
  <2>1. rows[j].rec \in Recording /\ rows[j].name \in Contents /\ Intact(rows[j].rec, rows[j].name)
    BY <1>1, RowShape DEF WholeInv, IntactInv
  <2> QED
    BY <1>1, <2>1, IntactStays
<1>2. CASE \E r \in Slot : /\ call[r].pc = "inserted"
                           /\ rows'[j].rec = call[r].rec /\ rows'[j].name = call[r].name
  <2>1. PICK r \in Slot : /\ call[r].pc = "inserted"
                          /\ rows'[j].rec = call[r].rec /\ rows'[j].name = call[r].name
    BY <1>2
  <2>2. /\ call[r].rec \in Recording /\ call[r].name \in Contents
        /\ Intact(call[r].rec, call[r].name)
    BY <2>1 DEF WholeInv, FileInv, CallsInv, HandsInv, InHand
  <2> QED
    BY <2>1, <2>2, IntactStays
<1> QED
  BY <1>1, <1>2 DEF RowsFrom

(* Steps that leave the rows alone.                                          *)
LEMMA RowsAlone ==
  ASSUME WholeInv, FileInv', Settled, HandsFrom, UNCHANGED <<rows, pool>>,
         known' \in SUBSET Station, dir' \in SUBSET Station, faults' \in {faults, faults + 1}
  PROVE  WholeInv'
<1>1. HandsInv'
  BY HandsStep
<1>2. IntactInv'
  BY IntactStep DEF RowsFrom
<1>3. faults' \in Nat /\ (faults > 0 => faults' > 0)
  BY DEF WholeInv, RestInv
<1>4. RestInv'
  BY <1>3 DEF WholeInv, RestInv, Settled
<1>5. FoundInv'
  <2>1. pool = "broken" => faults > 0
    BY DEF WholeInv, FoundInv
  <2>2. ASSUME NEW j \in DOMAIN rows, rows[j].rec \notin recopied' \cup clipped'
        PROVE  Seen(rows[j].rec, rows[j])'
    <3>1. Seen(rows[j].rec, rows[j])
      BY <2>2 DEF WholeInv, FoundInv, Settled
    <3> QED
      BY <1>3, <3>1 DEF Seen
  <2> QED
    BY <1>3, <2>1, <2>2 DEF FoundInv
<1>6. CopyInv'
  BY DEF Settled
<1> QED
  BY <1>1, <1>2, <1>4, <1>5, <1>6 DEF WholeInv

(* Steps that write to no file: requests in hand only go on, or are new      *)
(* uploads.                                                                  *)
LEMMA QuietWhole ==
  ASSUME WholeInv, FileInv', UNCHANGED <<cold, recopied, rows, pool>>, clipped \subseteq clipped',
         \A s \in Station : Copying(s)' => producer'[s] = producer[s],
         \A r \in Slot : InHand(r)' =>
           \/ /\ InHand(r) /\ call'[r].rec = call[r].rec /\ call'[r].name = call[r].name
              /\ call'[r].pc = "inserted" => call[r].pc = "inserted"
           \/ /\ call'[r].rec \in Uploaded /\ call'[r].name = Whole(call'[r].rec)
              /\ call'[r].pc = "arrived",
         known' \in SUBSET Station, dir' \in SUBSET Station, faults' \in {faults, faults + 1}
  PROVE  WholeInv'
<1>1. Settled
  <2>1. \A s \in Station : Copying(s)' =>
          /\ Copying(s)
          /\ producer'[s].item = producer[s].item /\ producer'[s].name = producer[s].name
    BY DEF Copying
  <2> QED
    BY <2>1, QuietSettles
<1>2. HandsFrom
  BY DEF HandsFrom
<1> QED
  BY <1>1, <1>2, RowsAlone

(* The camera, and directories that go and come.                             *)
LEMMA AsideWhole ==
  ASSUME WholeInv, FileInv', UNCHANGED <<cold, recopied, clipped, rows, pool, call, producer>>,
         known' \in SUBSET Station, dir' \in SUBSET Station, faults' \in {faults, faults + 1}
  PROVE  WholeInv'
<1>1. \A r \in Slot : InHand(r)' => InHand(r)
  BY DEF InHand
<1> QED
  BY <1>1, QuietWhole

(* A producer that neither starts nor ends a copy.                           *)
LEMMA ProducerWhole ==
  ASSUME WholeInv, FileInv', NEW s \in Station, UNCHANGED pool,
         \/ StartProducer(s) \/ ListDirectory(s) \/ TakeFile(s) \/ Wake(s)
         \/ HandleAnswer(s) \/ UnlinkFails(s) \/ PostTimesOut(s) \/ CancelProducer(s)
  PROVE  WholeInv'
<1>1. producer \in [Station -> Producer] /\ call \in [Slot -> Call]
      /\ known \in SUBSET Station /\ dir \in SUBSET Station
  BY DEF WholeInv, FileInv, Shape, RestInv
<1>2. /\ UNCHANGED <<cold, recopied, rows, known, dir>>
      /\ clipped \subseteq clipped' /\ faults' \in {faults, faults + 1}
  BY DEF StartProducer, ListDirectory, TakeFile, Wake, HandleAnswer, UnlinkFails, PostTimesOut,
         CancelProducer, intakeVars, storageVars, Fault
<1>3. \E p : producer' = [producer EXCEPT ![s] = p] /\ p.pc # "copying"
  <2>1. /\ Off.pc = "off" /\ Asleep.pc = "sleeping"
        /\ [Off EXCEPT !.pc = "scanning"].pc = "scanning"
        /\ \A p \in Producer : NextFile(p).pc = "scanning"
    BY DEF Off, Asleep, NextFile
  <2>2. producer[s] \in Producer
    BY <1>1
  <2>3. CASE StartProducer(s) \/ Wake(s)
    BY <2>1, <2>3 DEF StartProducer, Wake
  <2>4. CASE ListDirectory(s)
    <3>1. PICK S : producer' = [producer EXCEPT ![s] = IF s \in dir THEN [@ EXCEPT !.left = S]
                                                                 ELSE Asleep]
      BY <2>4 DEF ListDirectory
    <3>2. [producer[s] EXCEPT !.left = S].pc = "scanning"
      BY <2>2, <2>4 DEF ListDirectory, At, Producer
    <3>3. \/ producer' = [producer EXCEPT ![s] = [producer[s] EXCEPT !.left = S]]
          \/ producer' = [producer EXCEPT ![s] = Asleep]
      BY <3>1
    <3> QED
      BY <2>1, <3>2, <3>3
  <2>5. CASE TakeFile(s)
    <3>1. PICK f \in producer[s].left :
            producer' = [producer EXCEPT ![s] =
              IF s \notin dir THEN NextFile([@ EXCEPT !.left = producer[s].left \ {f}])
              ELSE [@ EXCEPT !.pc = "waiting", !.left = producer[s].left \ {f}, !.item = f,
                             !.name = Content(f, source[f].frames)]]
      BY <2>5 DEF TakeFile
    <3> DEFINE L == producer[s].left \ {f}
    <3>2. [producer[s] EXCEPT !.left = L] \in Producer
      BY <2>2 DEF Producer
    <3>3. /\ NextFile([producer[s] EXCEPT !.left = L]).pc = "scanning"
          /\ [producer[s] EXCEPT !.pc = "waiting", !.left = L, !.item = f,
                                 !.name = Content(f, source[f].frames)].pc = "waiting"
      BY <2>1, <2>2, <3>2 DEF Producer
    <3>4. \/ producer' = [producer EXCEPT ![s] = NextFile([producer[s] EXCEPT !.left = L])]
          \/ producer' = [producer EXCEPT ![s] =
               [producer[s] EXCEPT !.pc = "waiting", !.left = L, !.item = f,
                                   !.name = Content(f, source[f].frames)]]
      BY <3>1
    <3> QED
      BY <3>3, <3>4
  <2>6. CASE HandleAnswer(s) \/ UnlinkFails(s) \/ PostTimesOut(s) \/ CancelProducer(s)
    BY <2>1, <2>2, <2>6 DEF HandleAnswer, UnlinkFails, PostTimesOut, CancelProducer
  <2> QED
    BY <2>3, <2>4, <2>5, <2>6
<1>4. \A t \in Station : Copying(t)' => producer'[t] = producer[t]
  BY <1>1, <1>3 DEF Copying
<1>5. ASSUME NEW r \in Slot, InHand(r)'
      PROVE  /\ InHand(r) /\ call'[r].rec = call[r].rec /\ call'[r].name = call[r].name
             /\ call'[r].pc = call[r].pc
  <2>1. NoCall.pc = "free" /\ call[r] \in Call
    BY <1>1 DEF NoCall
  <2>2. call'[r] = call[r] \/ call'[r] = NoCall \/ call'[r] = [call[r] EXCEPT !.awaited = FALSE]
    <3>1. CASE StartProducer(s) \/ ListDirectory(s) \/ TakeFile(s) \/ Wake(s)
      BY <3>1 DEF StartProducer, ListDirectory, TakeFile, Wake, intakeVars
    <3>2. CASE HandleAnswer(s) \/ UnlinkFails(s)
      BY <1>1, <3>2 DEF HandleAnswer, UnlinkFails
    <3>3. CASE PostTimesOut(s) \/ CancelProducer(s)
      BY <3>3 DEF PostTimesOut, CancelProducer, CallsWithout
    <3> QED
      BY <3>1, <3>2, <3>3
  <2> QED
    BY <1>5, <2>1, <2>2 DEF InHand, Call
<1> QED
  BY <1>1, <1>2, <1>4, <1>5, QuietWhole

(* Those that write: a copy starts, ends, or is left as it is.               *)
LEMMA StartCopyWhole ==
  ASSUME WholeInv, FileInv', NEW s \in Station, StartCopy(s), UNCHANGED pool
  PROVE  WholeInv'
<1>1. UNCHANGED <<rows, call, known, dir, faults>>
  BY DEF StartCopy, intakeVars
<1>2. known \in SUBSET Station /\ dir \in SUBSET Station
  BY DEF WholeInv, RestInv
<1>3. HandsFrom
  BY <1>1 DEF HandsFrom, InHand
<1> QED
  BY <1>1, <1>2, <1>3, StartCopySettles, RowsAlone

LEMMA ForwardWhole ==
  ASSUME WholeInv, FileInv', NEW s \in Station, Forward(s), UNCHANGED pool
  PROVE  WholeInv'
<1> DEFINE p == producer[s]
           c == Content(p.item, source[p.item].frames)
<1>1. /\ UNCHANGED <<rows, known, dir, faults, clipped, recopied>> /\ Copying(s)
      /\ cold' = [cold EXCEPT ![p.name] = c]
  BY DEF Forward, Copying
<1>2. PICK r \in FreeSlot : /\ call' = [call EXCEPT ![r] = Posted(p.item, p.name)]
                            /\ producer' = [producer EXCEPT ![s].pc = "posting", ![s].slot = r]
  BY DEF Forward
<1>3. /\ known \in SUBSET Station /\ dir \in SUBSET Station /\ r \in Slot
      /\ call \in [Slot -> Call] /\ producer \in [Station -> Producer]
      /\ \A t \in Station : Copying(t) => t = s
  BY <1>1 DEF WholeInv, RestInv, FileInv, Shape, FreeSlot, CopyInv
<1>4. /\ p.item \in Recorded /\ p.name \in Contents
      /\ p.item \notin clipped => Finished(p.item) /\ p.name = Whole(p.item)
  BY <1>1 DEF WholeInv, FileInv, ProducersInv, Copying, Busy
<1>5. c \in Contents
  <2>1. /\ source[p.item].frames <= Len(Clip[p.item]) /\ source[p.item].frames \in Nat
        /\ p.item \in Recording
    BY <1>4 DEF WholeInv, FileInv, Shape, Source, Recording
  <2>2. Len(Clip[p.item]) \in Nat
    BY <2>1, RecordingAssumption
  <2> QED
    BY <2>1, <2>2, ContentsOf
<1>6. \A t \in Station : ~Copying(t)'
  BY <1>2, <1>3 DEF Copying, Producer
<1>7. Settled /\ cold'[p.name] = c
  BY <1>1, <1>5, <1>6, CopyEnds
<1>8. IntactAfter(p.item, p.name)
  <2>1. c # Null
    BY <1>5, ContentParts
  <2>2. p.item \notin clipped => c = Whole(p.item)
    BY <1>4 DEF Finished, Whole
  <2> QED
    BY <1>1, <1>4, <1>7, <2>1, <2>2 DEF IntactAfter
<1>9. HandsFrom
  <2> SUFFICES ASSUME NEW o \in Slot, InHand(o)'
               PROVE  \/ InHand(o) /\ call'[o] = call[o]
                      \/ call'[o].rec = p.item /\ call'[o].name = p.name
    BY <1>4, <1>8 DEF HandsFrom
  <2>1. CASE o = r
    BY <1>2, <1>3, <1>4, <2>1, PostedShape DEF Posted, NoCall
  <2>2. CASE o # r
    BY <1>2, <1>3, <2>2 DEF InHand
  <2> QED
    BY <2>1, <2>2
<1> QED
  BY <1>1, <1>3, <1>7, <1>9, RowsAlone

LEMMA RestartWhole ==
  ASSUME WholeInv, FileInv', IngestionRestarts, UNCHANGED pool
  PROVE  WholeInv'
<1>1. /\ UNCHANGED <<rows, known, dir, clipped, recopied>> /\ faults' = faults + 1
      /\ producer' = [s \in Station |-> Off] /\ call' = CallsWithout(Station)
  BY DEF IngestionRestarts, Fault
<1>2. /\ known \in SUBSET Station /\ dir \in SUBSET Station /\ call \in [Slot -> Call]
  BY DEF WholeInv, RestInv, FileInv, Shape
<1>3. \A t \in Station : ~Copying(t)'
  BY <1>1 DEF Copying, Off
<1>4. Settled
  <2>1. CASE LoopFree
    <3>1. cold' = cold
      BY <2>1 DEF IngestionRestarts
    <3> QED
      BY <1>1, <1>3, <3>1, QuietSettles
  <2>2. CASE ~LoopFree
    <3>1. PICK s \in Station :
            /\ Copying(s)
            /\ \E c \in Parts(producer[s].item) : cold' = [cold EXCEPT ![producer[s].name] = c]
      BY <2>2 DEF IngestionRestarts, Copying
    <3>2. PICK c \in Parts(producer[s].item) : cold' = [cold EXCEPT ![producer[s].name] = c]
      BY <3>1
    <3>3. producer[s].item \in Recorded
      BY <3>1 DEF WholeInv, FileInv, ProducersInv, Copying, Busy
    <3>4. /\ source[producer[s].item].frames <= Len(Clip[producer[s].item])
          /\ source[producer[s].item].frames \in Nat /\ producer[s].item \in Recording
      BY <3>3 DEF WholeInv, FileInv, Shape, Source, Recording
    <3>5. Len(Clip[producer[s].item]) \in Nat
      BY <3>4, RecordingAssumption
    <3>6. c \in Contents
      BY <3>4, <3>5, ContentsOf DEF Parts
    <3> QED
      BY <1>1, <1>3, <3>1, <3>2, <3>6, CopyEnds
  <2> QED
    BY <2>1, <2>2
<1>5. ASSUME NEW r \in Slot, InHand(r)'
      PROVE  /\ InHand(r) /\ call'[r].rec = call[r].rec /\ call'[r].name = call[r].name
             /\ call'[r].pc = call[r].pc
  <2>1. NoCall.pc = "free" /\ call[r] \in Call
    BY <1>2 DEF NoCall
  <2>2. call'[r] = call[r] \/ call'[r] = NoCall \/ call'[r] = [call[r] EXCEPT !.awaited = FALSE]
    BY <1>1 DEF CallsWithout
  <2> QED
    BY <1>5, <2>1, <2>2 DEF InHand, Call
<1>6. HandsFrom
  BY <1>5 DEF HandsFrom
<1> QED
  BY <1>1, <1>2, <1>4, <1>6, RowsAlone

LEMMA IngestWhole ==
  ASSUME WholeInv, FileInv', IngestStep, UNCHANGED pool
  PROVE  WholeInv'
<1>1. known \in SUBSET Station /\ dir \in SUBSET Station
  BY DEF WholeInv, RestInv
<1>2. ASSUME NEW s \in Station, DirVanishes(s) \/ DirReturns(s) PROVE WholeInv'
  BY <1>1, <1>2, AsideWhole DEF DirVanishes, DirReturns, intakeVars, storageVars, Fault
<1> QED
  BY <1>2, ProducerWhole, StartCopyWhole, ForwardWhole, RestartWhole DEF IngestStep, ProducerWork

-----------------------------------------------------------------------------
(* A request is answered, hashes its file, or is a new upload.               *)
LEMMA CallWhole ==
  ASSUME WholeInv, FileInv', NEW r \in Slot,
         UNCHANGED <<cold, recopied, clipped, rows, pool, producer, known, dir>>,
         faults' \in {faults, faults + 1},
         NEW q, call' = [call EXCEPT ![r] = q],
         \/ q.pc \in {"free", "answered"}
         \/ q.pc = "hashed" /\ InHand(r) /\ q.rec = call[r].rec /\ q.name = call[r].name
         \/ q.pc = "arrived" /\ q.rec \in Uploaded /\ q.name = Whole(q.rec)
  PROVE  WholeInv'
<1>1. /\ known \in SUBSET Station /\ dir \in SUBSET Station /\ call \in [Slot -> Call]
  BY DEF WholeInv, RestInv, FileInv, Shape
<1>2. ASSUME NEW o \in Slot, InHand(o)'
      PROVE  \/ /\ InHand(o) /\ call'[o].rec = call[o].rec /\ call'[o].name = call[o].name
                /\ call'[o].pc = "inserted" => call[o].pc = "inserted"
             \/ /\ call'[o].rec \in Uploaded /\ call'[o].name = Whole(call'[o].rec)
                /\ call'[o].pc = "arrived"
  <2>1. CASE o = r
    <3>1. call'[r] = q
      BY <1>1
    <3> QED
      BY <1>2, <2>1, <3>1 DEF InHand
  <2>2. CASE o # r
    BY <1>1, <1>2, <2>2 DEF InHand
  <2> QED
    BY <2>1, <2>2
<1> QED
  BY <1>1, <1>2, QuietWhole

LEMMA AnswerWhole ==
  ASSUME WholeInv, FileInv', NEW r \in Slot, NEW code \in {0, 201, 406, 422, 500}, Answer(r, code),
         UNCHANGED <<cold, recopied, clipped, rows, pool, producer, known, dir>>,
         faults' \in {faults, faults + 1}
  PROVE  WholeInv'
<1>1. call[r] \in Call
  BY DEF WholeInv, FileInv, Shape
<1>2. NoCall.pc = "free"
  BY DEF NoCall
<1>3. Answered(call[r], code).pc \in {"free", "answered"}
  BY <1>1, <1>2, AnsweredShape
<1>4. call' = [call EXCEPT ![r] = Answered(call[r], code)]
  BY DEF Answer
<1> QED
  BY <1>3, <1>4, CallWhole

LEMMA RequestWhole ==
  ASSUME WholeInv, FileInv', UNCHANGED <<ingestVars, pool>>, NEW r \in Slot,
         HashFile(r) \/ InsertRow(r) \/ CallFails(r)
  PROVE  WholeInv'
<1>1. /\ UNCHANGED <<recopied, clipped, rows, pool, producer, known, dir>>
      /\ faults' \in {faults, faults + 1}
  BY DEF ingestVars, HashFile, InsertRow, CallFails, storageVars, Fault
<1>2. call \in [Slot -> Call] /\ known \in SUBSET Station /\ dir \in SUBSET Station
  BY DEF WholeInv, FileInv, Shape, RestInv
<1>3. CASE \E code \in {0, 201, 406, 422, 500} : Answer(r, code) /\ cold' = cold
  BY <1>1, <1>3, AnswerWhole
<1>4. CASE HashFile(r)
  <2>1. cold' = cold /\ InHand(r) /\ call[r].pc = "arrived"
    BY <1>4 DEF HashFile, storageVars, InHand
  <2>2. \/ \E code \in {0, 201, 406, 422, 500} : Answer(r, code)
        \/ \E c : call' = [call EXCEPT ![r].pc = "hashed", ![r].hash = c]
    BY <1>4 DEF HashFile
  <2>3. CASE \E c : call' = [call EXCEPT ![r].pc = "hashed", ![r].hash = c]
    <3>1. PICK c : call' = [call EXCEPT ![r].pc = "hashed", ![r].hash = c]
      BY <2>3
    <3> DEFINE q == [call[r] EXCEPT !.pc = "hashed", !.hash = c]
    <3>2. call' = [call EXCEPT ![r] = q]
      BY <1>2, <3>1
    <3>3. q.pc = "hashed" /\ q.rec = call[r].rec /\ q.name = call[r].name
      BY <1>2 DEF Call
    <3> HIDE DEF q
    <3> QED
      BY <1>1, <2>1, <3>2, <3>3, CallWhole
  <2> QED
    BY <1>3, <2>1, <2>2, <2>3
<1>5. CASE InsertRow(r)
  <2>1. CASE call[r].hash \in Hashes
    BY <1>3, <1>5, <2>1 DEF InsertRow
  <2>2. CASE call[r].hash \notin Hashes
    <3>1. /\ call' = [call EXCEPT ![r].pc = "inserted"] /\ InHand(r)
      BY <1>5, <2>2 DEF InsertRow, InHand
    <3>2. /\ call'[r].rec = call[r].rec /\ call'[r].name = call[r].name
          /\ \A o \in Slot : o # r => call'[o] = call[o]
      BY <1>2, <3>1 DEF Call
    <3>3. /\ Settled
          /\ call[r].rec \in Uploaded => cold'[Whole(call[r].rec)] = Whole(call[r].rec)
      BY <1>5, <2>2, InsertSettles
    <3>4. HandsFrom
      <4> SUFFICES ASSUME NEW o \in Slot, InHand(o)'
                   PROVE  \/ o = r
                          \/ InHand(o) /\ call'[o] = call[o]
        BY <3>1, <3>2, <3>3 DEF HandsFrom
      <4> QED
        BY <3>2 DEF InHand
    <3> QED
      BY <1>1, <1>2, <3>3, <3>4, RowsAlone
  <2> QED
    BY <2>1, <2>2
<1>6. CASE CallFails(r)
  BY <1>3, <1>6 DEF CallFails
<1> QED
  BY <1>4, <1>5, <1>6

LEMMA UploadWhole ==
  ASSUME WholeInv, FileInv', UNCHANGED <<ingestVars, pool>>, NEW f \in Uploaded, Upload(f)
  PROVE  WholeInv'
<1>1. UNCHANGED <<cold, recopied, clipped, rows, pool, producer, known, dir, faults>>
  BY DEF Upload, ingestVars, storageVars
<1>2. PICK r \in FreeSlot : call' = [call EXCEPT ![r] = Posted(f, Whole(f))]
  BY DEF Upload
<1>3. r \in Slot
  BY DEF FreeSlot
<1>4. /\ Posted(f, Whole(f)).pc = "arrived" /\ Posted(f, Whole(f)).rec = f
      /\ Posted(f, Whole(f)).name = Whole(f)
  BY PostedShape, WholeContent DEF Recording
<1> HIDE DEF Posted
<1> QED
  BY <1>1, <1>2, <1>3, <1>4, CallWhole

(* A row is committed.                                                       *)
LEMMA CommitWhole ==
  ASSUME WholeInv, FileInv', UNCHANGED <<ingestVars, pool>>, NEW r \in Slot, CommitRow(r)
  PROVE  WholeInv'
<1> DEFINE x == [rec |-> call[r].rec, hash |-> call[r].hash, name |-> call[r].name,
                 stage |-> "queued", found |-> <<>>]
<1>1. /\ UNCHANGED <<cold, recopied, clipped, pool, producer, known, dir, faults>>
      /\ call[r].pc = "inserted" /\ rows' = Append(rows, x)
      /\ call' = [call EXCEPT ![r] = Answered(call[r], 201)]
  BY DEF CommitRow, Answer, ingestVars, storageVars
<1>2. /\ call \in [Slot -> Call] /\ call[r] \in Call /\ rows \in Seq(Row)
      /\ call[r].rec \in Recording /\ call[r].name \in Contents /\ call[r].hash \in Contents
  BY <1>1 DEF WholeInv, FileInv, Shape, RestInv, CallsInv
<1>3. x \in Row /\ x.stage = "queued" /\ x.rec = call[r].rec /\ x.name = call[r].name
  BY <1>2 DEF Row
<1> HIDE DEF x
<1>4. /\ rows' \in Seq(Row)
      /\ \A j \in DOMAIN rows' : (j \in DOMAIN rows /\ rows'[j] = rows[j]) \/ rows'[j] = x
  BY <1>1, <1>2, <1>3
<1>5. RestInv'
  BY <1>1, <1>4 DEF WholeInv, RestInv
<1>6. \A s \in Station : Copying(s)' => Copying(s)
  BY <1>1 DEF Copying
<1>7. Settled
  BY <1>1, <1>6, QuietSettles
<1>8. RowsFrom
  BY <1>1, <1>3, <1>4 DEF RowsFrom
<1>9. HandsFrom
  <2> SUFFICES ASSUME NEW o \in Slot, InHand(o)'
               PROVE  InHand(o) /\ call'[o] = call[o]
    BY DEF HandsFrom
  <2>1. NoCall.pc = "free"
    BY DEF NoCall
  <2>2. Answered(call[r], 201).pc \in {"free", "answered"}
    BY <1>2, <2>1, AnsweredShape
  <2> QED
    BY <1>1, <1>2, <2>2 DEF InHand
<1>10. FoundInv'
  <2>1. ASSUME NEW j \in DOMAIN rows', rows'[j].rec \notin recopied' \cup clipped'
        PROVE  Seen(rows[j].rec, rows[j])'
    <3>1. CASE rows'[j] = x
      BY <1>3, <3>1 DEF Seen
    <3>2. CASE j \in DOMAIN rows /\ rows'[j] = rows[j]
      BY <1>1, <2>1, <3>2 DEF WholeInv, FoundInv, Seen
    <3> QED
      BY <1>4, <3>1, <3>2
  <2>2. (pool = "broken" => faults > 0)'
    BY <1>1 DEF WholeInv, FoundInv
  <2> QED
    BY <2>1, <2>2 DEF FoundInv
<1> QED
  BY <1>5, <1>7, <1>8, <1>9, <1>10, HandsStep, IntactStep DEF WholeInv, Settled

-----------------------------------------------------------------------------
LEMMA RowStaged ==
  ASSUME NEW row \in Row, NEW stage \in {"queued", "submitted", "done", "failed", "lost"},
         NEW x, x = [row EXCEPT !.stage = stage]
  PROVE  x \in Row /\ x.rec = row.rec /\ x.name = row.name /\ x.stage = stage
  BY DEF Row

(* What the pool does: rows get on, and a request may be broken off.         *)
LEMMA PoolWhole ==
  ASSUME WholeInv, FileInv', HandsFrom,
         UNCHANGED <<cold, recopied, clipped, producer, known, dir>>,
         faults' \in {faults, faults + 1}, pool' \in {"up", "broken"},
         pool' = "broken" => faults' > 0,
         rows' = [j \in DOMAIN rows |-> rows'[j]],
         \A j \in DOMAIN rows :
           /\ rows'[j] \in Row
           /\ rows'[j].rec = rows[j].rec /\ rows'[j].name = rows[j].name
           /\ rows[j].rec \notin recopied \cup clipped =>
                /\ rows'[j].stage = "failed" => faults' > 0
                /\ rows'[j].stage = "done" =>
                     rows'[j].found = Findings[rows[j].rec][rows[j].rec][Len(Clip[rows[j].rec])]
  PROVE  WholeInv'
<1>1. rows \in Seq(Row) /\ DOMAIN rows' = DOMAIN rows
  BY DEF WholeInv, RestInv
<1>2. Len(rows) \in Nat /\ DOMAIN rows = 1 .. Len(rows)
  BY <1>1
<1>3. rows' \in [1 .. Len(rows) -> Row]
  BY <1>1, <1>2
<1>4. rows' \in Seq(Row)
  BY <1>2, <1>3
<1>5. RestInv'
  BY <1>4 DEF WholeInv, RestInv
<1>6. \A s \in Station : Copying(s)' => Copying(s)
  BY DEF Copying
<1>7. Settled
  BY <1>6, QuietSettles
<1>8. RowsFrom
  BY <1>1 DEF RowsFrom
<1>9. FoundInv'
  BY <1>1 DEF FoundInv, Seen
<1> QED
  BY <1>5, <1>7, <1>8, <1>9, HandsStep, IntactStep DEF WholeInv, Settled

(* What there is to find has the shape of what a row stores.                 *)
LEMMA FindingsShape ==
  ASSUME NEW f \in Recording, NEW c \in Contents, c.frames > 0
  PROVE  Findings[f][c.rec][c.frames] \in Seq(Event)
<1>1. PICK g \in Recording : \E n \in 0 .. Len(Clip[g]) : c = Content(g, n)
  BY DEF Contents
<1>2. PICK n \in 0 .. Len(Clip[g]) : c = Content(g, n)
  BY <1>1
<1>3. n \in Nat /\ c.frames = n /\ c.rec = g /\ Clip[g] \in Seq(Frame) /\ n <= Len(Clip[g])
  BY <1>2, RecordingAssumption DEF Content
<1>4. SubSeq(Clip[g], 1, n) \in Seq(Frame)
  BY <1>3
<1>5. Events(Roi[Home[f]], SubSeq(Clip[g], 1, n)) \in Seq(Event)
  BY <1>4, EventsOf
<1> QED
  BY <1>3, <1>5 DEF Findings

LEMMA StageWhole ==
  ASSUME WholeInv, FileInv', UNCHANGED <<ingestVars, storageVars, call, known, pool>>,
         NEW i \in DOMAIN rows, NEW row \in Row, rows' = [rows EXCEPT ![i] = row],
         row.rec = rows[i].rec, row.name = rows[i].name,
         row.rec \notin recopied \cup clipped =>
           /\ row.stage = "failed" => faults > 0
           /\ row.stage = "done" => row.found = Findings[row.rec][row.rec][Len(Clip[row.rec])]
  PROVE  WholeInv'
<1>1. UNCHANGED <<cold, recopied, clipped, producer, known, dir, faults, pool, call>>
  BY DEF ingestVars, storageVars
<1>2. HandsFrom
  BY <1>1 DEF HandsFrom, InHand
<1>3. pool \in {"up", "broken"} /\ (pool = "broken" => faults > 0)
  BY DEF WholeInv, RestInv, FoundInv
<1>4. ASSUME NEW j \in DOMAIN rows
      PROVE  /\ rows'[j] \in Row
             /\ rows'[j].rec = rows[j].rec /\ rows'[j].name = rows[j].name
             /\ rows[j].rec \notin recopied \cup clipped =>
                  /\ rows'[j].stage = "failed" => faults > 0
                  /\ rows'[j].stage = "done" =>
                       rows'[j].found = Findings[rows[j].rec][rows[j].rec][Len(Clip[rows[j].rec])]
  <2>1. CASE j = i
    <3>1. rows'[j] = row
      BY <2>1
    <3> QED
      BY <2>1, <3>1
  <2>2. CASE j # i
    <3>1. rows'[j] = rows[j] /\ rows[j] \in Row
      BY <2>2, RowShape DEF WholeInv
    <3>2. rows[j].rec \notin recopied \cup clipped => Seen(rows[j].rec, rows[j])
      BY DEF WholeInv, FoundInv
    <3> QED
      BY <3>1, <3>2 DEF Seen
  <2> QED
    BY <2>1, <2>2
<1>5. rows' = [j \in DOMAIN rows |-> rows'[j]]
  OBVIOUS
<1> QED
  BY <1>1, <1>2, <1>3, <1>4, <1>5, PoolWhole

LEMMA JobWhole ==
  ASSUME WholeInv, FileInv', UNCHANGED ingestVars, JobWork
  PROVE  WholeInv'
<1>1. UNCHANGED <<storageVars, call, known, pool>>
  BY DEF JobWork, SubmitJob, EndJob
<1>2. PICK i \in DOMAIN rows : SubmitJob(i) \/ EndJob(i)
  BY DEF JobWork
<1>3. /\ rows[i] \in Row /\ rows[i].rec \in Recording /\ rows[i].name \in Contents
      /\ rows[i].found \in Seq(Event) /\ <<>> \in Seq(Event)
  BY RowShape DEF WholeInv, Row, Event
<1>4. pool \in {"up", "broken"} /\ (pool = "broken" => faults > 0)
  BY DEF WholeInv, RestInv, FoundInv
<1>5. CASE SubmitJob(i)
  <2>1. PICK stage \in {"submitted", "failed"} :
          /\ rows' = [rows EXCEPT ![i].stage = stage]
          /\ stage = "failed" => pool # "up"
    BY <1>5 DEF SubmitJob, Stage
  <2> DEFINE row == [rows[i] EXCEPT !.stage = stage]
  <2>2. row \in Row /\ row.rec = rows[i].rec /\ row.name = rows[i].name /\ row.stage = stage
    BY <1>3, RowStaged
  <2>3. rows' = [rows EXCEPT ![i] = row]
    BY <2>1
  <2> HIDE DEF row
  <2> QED
    BY <1>1, <1>4, <2>1, <2>2, <2>3, StageWhole
<1>6. CASE EndJob(i)
  <2>1. PICK c \in Readings(rows[i].name) :
          \/ /\ c.frames > 0
             /\ rows' = [rows EXCEPT ![i].stage = "done",
                                     ![i].found = Findings[rows[i].rec][c.rec][c.frames]]
          \/ c # Whole(rows[i].rec) /\ Stage(i, "failed")
    BY <1>6 DEF EndJob
  <2>2. /\ cold[rows[i].name] # Null
        /\ rows[i].rec \notin recopied \cup clipped => cold[rows[i].name] = Whole(rows[i].rec)
    BY DEF WholeInv, IntactInv, Intact
  <2>3. c \in Contents /\ (rows[i].rec \notin recopied \cup clipped => c = Whole(rows[i].rec))
    BY <1>3, <2>1, <2>2, ReadingsOf DEF WholeInv
  <2>4. CASE /\ c.frames > 0
             /\ rows' = [rows EXCEPT ![i].stage = "done",
                                     ![i].found = Findings[rows[i].rec][c.rec][c.frames]]
    <3> DEFINE found == Findings[rows[i].rec][c.rec][c.frames]
               row == [rows[i] EXCEPT !.stage = "done", !.found = found]
    <3>1. found \in Seq(Event)
      BY <1>3, <2>3, <2>4, FindingsShape
    <3>2. rows[i].rec \notin recopied \cup clipped =>
            found = Findings[rows[i].rec][rows[i].rec][Len(Clip[rows[i].rec])]
      BY <1>3, <2>3, WholeContent
    <3>3. rows' = [rows EXCEPT ![i] = row]
      BY <2>4
    <3> HIDE DEF found
    <3>4. /\ row \in Row /\ row.rec = rows[i].rec /\ row.name = rows[i].name /\ row.stage = "done"
          /\ row.found = found
      BY <1>3, <3>1 DEF Row, Event
    <3> HIDE DEF row
    <3> QED
      BY <1>1, <3>2, <3>3, <3>4, StageWhole
  <2>5. CASE c # Whole(rows[i].rec) /\ Stage(i, "failed")
    <3> DEFINE row == [rows[i] EXCEPT !.stage = "failed"]
    <3>1. row \in Row /\ row.rec = rows[i].rec /\ row.name = rows[i].name /\ row.stage = "failed"
      BY <1>3, RowStaged
    <3>2. rows' = [rows EXCEPT ![i] = row] /\ rows[i].rec \in recopied \cup clipped
      BY <2>3, <2>5 DEF Stage
    <3> HIDE DEF row
    <3> QED
      BY <1>1, <3>1, <3>2, StageWhole
  <2> QED
    BY <2>1, <2>4, <2>5
<1> QED
  BY <1>2, <1>5, <1>6

(* A worker or the whole API dies.                                           *)
LEMMA DeathWhole ==
  ASSUME WholeInv, FileInv', UNCHANGED ingestVars, WorkerDies \/ ApiRestarts
  PROVE  WholeInv'
<1>1. UNCHANGED <<cold, recopied, clipped, producer, known, dir>> /\ faults' = faults + 1
  BY DEF ingestVars, WorkerDies, ApiRestarts, Fault
<1>2. faults' > 0 /\ pool \in {"up", "broken"} /\ call \in [Slot -> Call]
  BY <1>1 DEF WholeInv, RestInv, FileInv, Shape
<1>3. pool' \in {"up", "broken"}
  BY DEF WorkerDies, ApiRestarts
<1>4. HandsFrom
  <2> SUFFICES ASSUME NEW r \in Slot, InHand(r)' PROVE InHand(r) /\ call'[r] = call[r]
    BY DEF HandsFrom
  <2>1. CASE WorkerDies
    BY <2>1 DEF WorkerDies, InHand
  <2>2. CASE ApiRestarts
    <3>1. call[r] \in Call /\ NoCall.pc = "free"
      BY <1>2 DEF NoCall
    <3>2. Answered(call[r], 0).pc \in {"free", "answered"}
      BY <3>1, AnsweredShape
    <3>3. call'[r] = call[r] \/ call'[r] = Answered(call[r], 0)
      BY <2>2 DEF ApiRestarts
    <3> QED
      BY <3>2, <3>3 DEF InHand
  <2> QED
    BY <2>1, <2>2
<1>5. /\ rows' = [j \in DOMAIN rows |-> rows'[j]]
      /\ \A j \in DOMAIN rows :
           \/ rows'[j] = rows[j]
           \/ \E stage \in {"failed", "lost"} : rows'[j] = [rows[j] EXCEPT !.stage = stage]
  <2>1. CASE WorkerDies
    BY <2>1 DEF WorkerDies
  <2>2. CASE ApiRestarts
    BY <2>2 DEF ApiRestarts
  <2> QED
    BY <2>1, <2>2
<1>6. ASSUME NEW j \in DOMAIN rows
      PROVE  /\ rows'[j] \in Row
             /\ rows'[j].rec = rows[j].rec /\ rows'[j].name = rows[j].name
             /\ rows[j].rec \notin recopied \cup clipped =>
                  (rows'[j].stage = "done" =>
                     rows'[j].found = Findings[rows[j].rec][rows[j].rec][Len(Clip[rows[j].rec])])
  <2>1. rows[j] \in Row /\ <<>> \in Seq(Event)
    BY RowShape DEF WholeInv
  <2>2. CASE rows'[j] = rows[j]
    BY <2>1, <2>2 DEF WholeInv, FoundInv, Seen
  <2>3. CASE \E stage \in {"failed", "lost"} : rows'[j] = [rows[j] EXCEPT !.stage = stage]
    <3>1. PICK stage \in {"failed", "lost"} : rows'[j] = [rows[j] EXCEPT !.stage = stage]
      BY <2>3
    <3> QED
      BY <2>1, <3>1, RowStaged
  <2> QED
    BY <1>5, <2>2, <2>3
<1> QED
  BY <1>1, <1>2, <1>3, <1>4, <1>5, <1>6, PoolWhole

LEMMA WholeStep == WholeInv /\ [Next]_vars => WholeInv'
<1> SUFFICES ASSUME WholeInv, [Next]_vars PROVE WholeInv'
  OBVIOUS
<1>1. FileInv'
  BY FileStep DEF WholeInv
<1>2. known \in SUBSET Station /\ dir \in SUBSET Station
  BY DEF WholeInv, RestInv
<1>3. CASE CameraStep /\ UNCHANGED <<intakeVars, ingestVars, pool>>
  <2>1. UNCHANGED <<cold, recopied, clipped, rows, pool, call, producer, known, dir, faults>>
    BY <1>3 DEF CameraStep, CameraOpens, CameraWrites, intakeVars, ingestVars
  <2> QED
    BY <1>1, <1>2, <2>1, AsideWhole
<1>4. CASE IngestStep /\ UNCHANGED pool
  BY <1>1, <1>4, IngestWhole
<1>5. CASE IntakeStep /\ UNCHANGED <<ingestVars, pool>>
  <2>1. ASSUME NEW s \in Station, RegisterStation(s) PROVE WholeInv'
    <3>1. /\ UNCHANGED <<cold, recopied, clipped, rows, pool, call, producer, dir, faults>>
          /\ known' \in SUBSET Station
      BY <1>2, <1>5, <2>1 DEF RegisterStation, ingestVars, storageVars
    <3> QED
      BY <1>1, <1>2, <3>1, AsideWhole
  <2> QED
    BY <1>1, <1>5, <2>1, UploadWhole, RequestWhole, CommitWhole DEF IntakeStep, CallWork
<1>6. CASE ExecutorStep /\ UNCHANGED ingestVars
  BY <1>1, <1>6, JobWhole, DeathWhole DEF ExecutorStep
<1>7. CASE UNCHANGED vars
  <2>1. UNCHANGED <<cold, recopied, clipped, rows, pool, call, producer, known, dir, faults>>
    BY <1>7 DEF vars, intakeVars, ingestVars, storageVars
  <2> QED
    BY <1>1, <1>2, <2>1, AsideWhole
<1> QED
  BY <1>3, <1>4, <1>5, <1>6, <1>7 DEF Next

(* Every request, row, producer and file keeps its shape, the events that    *)
(* the workers store included.                                               *)
THEOREM FilesTyped == Spec => []TypeOK
<1>1. WholeInv => TypeOK
  BY DEF WholeInv, FileInv, Shape, RestInv, Torns,
         TypeOK, StorageTypeOK, IntakeTypeOK, IngestTypeOK
<1> QED
  BY <1>1, InitWhole, WholeStep, PTL DEF Spec

(* For any recordings, clips and stations, and whatever fails or dies on the *)
(* way: what is stored for a recording that was finished when it was taken,  *)
(* and copied once, is all there is to find in it, in the order of its       *)
(* frames, and only a fault keeps it from being recognised.                  *)
THEOREM WholeRecognised == Spec => []RecognisedWhole
<1>1. WholeInv => RecognisedWhole
  <2> SUFFICES ASSUME WholeInv, NEW j \in DOMAIN rows, rows[j].rec \notin recopied \cup clipped
               PROVE  /\ rows[j].stage = "failed" => faults > 0
                      /\ rows[j].stage = "done" =>
                           LET f == rows[j].rec
                               found == rows[j].found
                           IN  /\ Len(found) = Cardinality(Large(f))
                               /\ \A a, b \in DOMAIN found : a < b => found[a].frame <= found[b].frame
                               /\ \A p \in Large(f) : \E a \in DOMAIN found :
                                    /\ found[a].frame = p[1] - 1
                                    /\ found[a].id = Clip[f][p[1]].markers[p[2]].id
    BY DEF RecognisedWhole
  <2> DEFINE f == rows[j].rec
             roi == Roi[Home[f]]
             E == Events(roi, Clip[f])
  <2>1. f \in Recording /\ Seen(f, rows[j])
    BY RowShape DEF WholeInv, FoundInv
  <2> HIDE DEF f
  <2>2. Clip[f] \in Seq(Frame) /\ Len(Clip[f]) \in Nat /\ DOMAIN Clip[f] = 1 .. Len(Clip[f])
    BY <2>1, RecordingAssumption
  <2>3. SubSeq(Clip[f], 1, Len(Clip[f])) = Clip[f]
    BY <2>2
  <2>4. Findings[f][f][Len(Clip[f])] = E
    <3> DEFINE n == Len(Clip[f])
    <3>1. n \in 0 .. n
      BY <2>2
    <3> HIDE DEF n
    <3>2. Findings[f][f][Len(Clip[f])] = Events(roi, SubSeq(Clip[f], 1, n))
      BY <2>1, <3>1 DEF Findings, n
    <3> QED
      BY <2>3, <3>2 DEF n
  <2>5. Large(f) = Detected(Clip[f])
    BY <2>2 DEF Large, Detected, Places, Triggered, LargeEnough
  <2>6. /\ Len(E) = Cardinality(Large(f))
        /\ \A a, b \in DOMAIN E : a < b => E[a].frame <= E[b].frame
        /\ \A p \in Large(f) : \E a \in DOMAIN E : E[a] = Emitted(roi, Clip[f], p)
    BY <2>2, <2>5, EventsOf
  <2>7. \A p \in Large(f) : /\ Emitted(roi, Clip[f], p).frame = p[1] - 1
                            /\ Emitted(roi, Clip[f], p).id = Clip[f][p[1]].markers[p[2]].id
    BY DEF Emitted
  <2> HIDE DEF E, roi
  <2>8. rows[j].stage = "done" => rows[j].found = E
    BY <2>1, <2>4 DEF Seen
  <2> QED
    BY <2>1, <2>6, <2>7, <2>8 DEF Seen, f
<1> QED
  BY <1>1, InitWhole, WholeStep, PTL DEF Spec
=============================================================================
