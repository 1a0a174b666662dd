--------------------------- MODULE VideoProcessing ---------------------------
(***************************************************************************)
(* What a worker computes from a clip (src/services/video_processor.py and *)
(* detector.py): frames with enough motion are searched for markers, and   *)
(* every marker that is large enough becomes an event.  What OpenCV finds  *)
(* in a frame is part of the frame; the parked decision is left out, as    *)
(* `process_video' drops it.                                               *)
(***************************************************************************)
EXTENDS Integers, Sequences, Ordered

CONSTANTS
    MinArea,   \* detector_settings.min_contour_area
    MinSide    \* detector_settings.min_aruco_side_pixels

(* A marker is its id and bounding box; a region of interest is the set of   *)
(* points inside the polygon, or Everywhere for a station without one.       *)
CONSTANT Everywhere

Triggered(frame) == frame.area > MinArea

LargeEnough(marker) == marker.w >= MinSide

Centre(marker) == <<marker.x + marker.w \div 2, marker.y + marker.h \div 2>>

InsideRoi(roi, marker) == roi = Everywhere \/ Centre(marker) \in roi

Places(frames) == UNION {{n} \X DOMAIN frames[n].markers : n \in DOMAIN frames}

(* Mutant of Detected: markers of any size count.                            *)
DetectedAnySize(frames) == {p \in Places(frames) : Triggered(frames[p[1]])}

(* The markers that count: the number of the frame, and which one there.     *)
Detected(frames) ==
    {p \in Places(frames) : /\ Triggered(frames[p[1]])
                            /\ LargeEnough(frames[p[1]].markers[p[2]])}

Earlier(S) ==
    {r \in S \X S : \/ r[1][1] < r[2][1]
                    \/ r[1][1] = r[2][1] /\ r[1][2] < r[2][2]}

(* The event of one of them; frames are counted from 0.                      *)
Emitted(roi, frames, p) ==
    LET marker == frames[p[1]].markers[p[2]]
    IN  [frame |-> p[1] - 1, id |-> marker.id, inside |-> InsideRoi(roi, marker)]

(* `process_video': frame after frame, and marker after marker in a frame.   *)
Events(roi, frames) ==
    LET places == InOrder(Detected(frames), Earlier(Detected(frames)))
    IN  [k \in DOMAIN places |-> Emitted(roi, frames, places[k])]
=============================================================================
