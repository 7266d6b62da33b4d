-------------------------- MODULE Interface_proofs --------------------------
(***************************************************************************)
(* Proofs about the screen manager, for any pages, sub-pages, coroutines   *)
(* and sizes of the terminal.                                              *)
(*                                                                         *)
(* Switching pages calls one handler from within another, so the proof     *)
(* follows the calls: each function of the manager has a lemma that says   *)
(* which fields it leaves alone (SameBut) and what it promises when it is  *)
(* given a state that may be half-way between two pages (Kept).            *)
(*                                                                         *)
(* Then proofs about the text input dialog, its history and completion,    *)
(* for any characters, widths and lines: the order of lines, columns and   *)
(* words, what the cursor's movements and edits keep in sight, and what a  *)
(* dialog leaves in the history.  And about the key bindings, for any      *)
(* commands, keys and files.                                               *)
(***************************************************************************)
EXTENDS ScreenManager, TextInput, Keys, FiniteSetTheorems, WellFoundedInduction, TLAPS

-----------------------------------------------------------------------------
(* Fields *)

\* The fields that the dialog and the coroutines do not touch, and those they do
PageFields ==
    {"page", "prev", "sub", "made", "open", "pending", "missed", "window", "size", "laid", "updated",
     "twice"}
SamePages(s, t) == \A k \in PageFields : t[k] = s[k]

\* Resumable, of any state
ResumableIn(s) ==
    /\ \A f \in Frames : s.frame[f] # FreeFrame =>
         s.modal = f /\ s.task[s.frame[f].owner] = f
    /\ s.modal # NoFrame => s.frame[s.modal] # FreeFrame
    /\ \A o \in Owners : s.task[o] # NoFrame => s.frame[s.task[o]].owner = o

Handles == Frames \cup {NoFrame}

\* A task may hold no handle.
LEMMA NoHandle == NoFrame \in Handles
  BY DEF Handles

\* One field at a time
SetModal(s, m) == [s EXCEPT !.modal = m]
SetTask(s, o, m) == [s EXCEPT !.task[o] = m]
SetFrame(s, f, v) == [s EXCEPT !.frame[f] = v]

\* The dialog that is shown ...
LEMMA ModalSet ==
    ASSUME NEW s \in Screens, NEW m \in Handles, NEW n, n = SetModal(s, m)
    PROVE  n \in Screens /\ SamePages(s, n) /\ n.modal = m /\ n.task = s.task /\ n.frame = s.frame
<1>1. n \in Screens
  BY DEF Screens, SetModal, Handles
<1>2. SamePages(s, n)
  BY DEF Screens, SetModal, SamePages, PageFields
<1>3. n.modal = m /\ n.task = s.task /\ n.frame = s.frame
  BY DEF Screens, SetModal
<1> QED BY <1>1, <1>2, <1>3

\* ... the handle an owner has ...
LEMMA TaskSet ==
    ASSUME NEW s \in Screens, NEW o \in Owners, NEW m \in Handles, NEW n, n = SetTask(s, o, m)
    PROVE  n \in Screens /\ SamePages(s, n) /\ n.modal = s.modal /\ n.task = [s.task EXCEPT ![o] = m] /\ n.frame = s.frame
<1>1. n \in Screens
  BY DEF Screens, SetTask, Handles
<1>2. SamePages(s, n)
  BY DEF Screens, SetTask, SamePages, PageFields
<1>3. n.modal = s.modal /\ n.task = [s.task EXCEPT ![o] = m] /\ n.frame = s.frame
  BY DEF Screens, SetTask
<1> QED BY <1>1, <1>2, <1>3

\* ... and a coroutine can be replaced by another of its type, without a change to anything else.
LEMMA FrameSet ==
    ASSUME NEW s \in Screens, NEW f \in Frames, NEW v \in FrameStates, NEW n, n = SetFrame(s, f, v)
    PROVE  n \in Screens /\ SamePages(s, n) /\ n.modal = s.modal /\ n.task = s.task /\ n.frame = [s.frame EXCEPT ![f] = v]
<1>1. n \in Screens
  BY DEF Screens, SetFrame
<1>2. SamePages(s, n)
  BY DEF Screens, SetFrame, SamePages, PageFields
<1>3. n.modal = s.modal /\ n.task = s.task /\ n.frame = [s.frame EXCEPT ![f] = v]
  BY DEF Screens, SetFrame
<1> QED BY <1>1, <1>2, <1>3


\* The dialog and the coroutines are at rest.
Quiet(s) ==
    /\ s.modal = NoFrame
    /\ \A o \in Owners : s.task[o] = NoFrame
    /\ \A f \in Frames : s.frame[f] = FreeFrame

\* What two steps leave alone, they leave alone together.
LEMMA SameIsTransitive ==
    ASSUME NEW r, NEW s, NEW t, SamePages(r, s), SamePages(s, t)
    PROVE  SamePages(r, t)
  BY DEF SamePages

\* A coroutine that is suspended has an owner; a free frame has none.
LEMMA FrameKinds ==
    ASSUME NEW s \in Screens, NEW f \in Frames
    PROVE  /\ FreeFrame \in FrameStates /\ s.frame[f] \in FrameStates
           /\ s.frame[f] # FreeFrame => s.frame[f].owner \in Owners /\ s.frame[f].dialog \in Dialogs
           /\ FreeFrame.owner \notin Owners
<1>1. FreeFrame \in FrameStates /\ s.frame[f] \in FrameStates
  BY DEF Screens, FrameStates
<1>2. s.frame[f] # FreeFrame => s.frame[f].owner \in Owners /\ s.frame[f].dialog \in Dialogs
  BY <1>1 DEF FrameStates
<1>3. FreeFrame.owner \notin Owners
  BY ScreenAssumption DEF FreeFrame, Owners, ScreenPages
<1> QED BY <1>1, <1>2, <1>3

\* There is at most one suspended coroutine, and no handle of any other.
LEMMA OneAtATime ==
    ASSUME NEW s \in Screens, ResumableIn(s)
    PROVE  /\ s.modal = NoFrame => Quiet(s)
           /\ s.modal # NoFrame =>
                /\ s.modal \in Frames /\ s.frame[s.modal].owner \in Owners
                /\ s.frame[s.modal].dialog \in Dialogs
                /\ s.task[s.frame[s.modal].owner] = s.modal
                /\ \A f \in Frames \ {s.modal} : s.frame[f] = FreeFrame
                /\ \A o \in Owners \ {s.frame[s.modal].owner} : s.task[o] = NoFrame
<1>1. NoFrame \notin Frames /\ s.modal \in Handles /\ \A o \in Owners : s.task[o] \in Handles
  BY ScreenAssumption DEF Screens, Handles
<1>2. \A f \in Frames : s.frame[f] # FreeFrame => s.modal = f
  BY DEF ResumableIn
<1>3. \A o \in Owners : s.task[o] # NoFrame => s.task[o] \in Frames /\ s.frame[s.task[o]].owner = o /\ s.frame[s.task[o]] # FreeFrame
  BY <1>1, FrameKinds DEF ResumableIn, Handles
<1>4. \A o \in Owners : s.task[o] # NoFrame => s.modal = s.task[o] /\ s.frame[s.modal].owner = o
  BY <1>2, <1>3
<1>5. ASSUME s.modal = NoFrame PROVE Quiet(s)
  BY <1>1, <1>2, <1>4, <1>5 DEF Quiet
<1>6. ASSUME s.modal # NoFrame
      PROVE  /\ s.modal \in Frames /\ s.frame[s.modal].owner \in Owners
             /\ s.frame[s.modal].dialog \in Dialogs
             /\ s.task[s.frame[s.modal].owner] = s.modal
             /\ \A f \in Frames \ {s.modal} : s.frame[f] = FreeFrame
             /\ \A o \in Owners \ {s.frame[s.modal].owner} : s.task[o] = NoFrame
  <2>1. s.modal \in Frames /\ s.frame[s.modal] # FreeFrame
    BY <1>1, <1>6 DEF Handles, ResumableIn
  <2> QED
    BY <1>2, <1>4, <2>1, FrameKinds DEF ResumableIn
<1> QED BY <1>5, <1>6

\* Nothing waits in a state that is quiet.
LEMMA QuietIsResumable == ASSUME NEW s, Quiet(s) PROVE ResumableIn(s)
  BY DEF Quiet, ResumableIn

\* Finish: the frame and the handle are given back.
LEMMA Finished ==
    ASSUME NEW s \in Screens, NEW f \in Frames, s.frame[f].owner \in Owners, NEW n, n = Finish(s, f)
    PROVE  /\ n \in Screens /\ SamePages(s, n) /\ n.modal = s.modal
           /\ n.task = [s.task EXCEPT ![s.frame[f].owner] = NoFrame]
           /\ n.frame = [s.frame EXCEPT ![f] = FreeFrame]
<1> DEFINE m == [s EXCEPT !.task[s.frame[f].owner] = NoFrame]
       o == s.frame[f].owner
<1>2. n = SetFrame(m, f, FreeFrame) /\ m = SetTask(s, o, NoFrame) /\ o \in Owners
  BY DEF Finish, SetTask, SetFrame
<1> HIDE DEF m, o
<1>1. /\ m \in Screens /\ SamePages(s, m) /\ m.modal = s.modal /\ m.frame = s.frame
      /\ m.task = [s.task EXCEPT ![o] = NoFrame]
  BY <1>2, TaskSet, NoHandle
<1>4. FreeFrame \in FrameStates
  BY FrameKinds
<1>3. /\ n \in Screens /\ SamePages(m, n) /\ n.modal = m.modal /\ n.task = m.task
      /\ n.frame = [m.frame EXCEPT ![f] = FreeFrame]
  BY <1>1, <1>2, <1>4, FrameSet
<1> QED
  BY <1>1, <1>3, SameIsTransitive DEF o

\* Destroy: the coroutine takes its dialog with it, the handle was given up before.
LEMMA Destroyed ==
    ASSUME NEW s \in Screens, NEW f \in Frames, NEW n, n = Destroy(s, f)
    PROVE  /\ n \in Screens /\ SamePages(s, n) /\ n.modal = (IF s.modal = f THEN NoFrame ELSE s.modal)
           /\ n.task = s.task
           /\ n.frame = [s.frame EXCEPT ![f] = FreeFrame]
<1> DEFINE m == [s EXCEPT !.frame[f] = FreeFrame]
<1>2. n = [m EXCEPT !.modal = IF @ = f THEN NoFrame ELSE @] /\ m = SetFrame(s, f, FreeFrame)
  BY DEF Destroy, SetFrame
<1> HIDE DEF m
<1>5. FreeFrame \in FrameStates
  BY FrameKinds
<1>1. /\ m \in Screens /\ SamePages(s, m) /\ m.modal = s.modal /\ m.task = s.task
      /\ m.frame = [s.frame EXCEPT ![f] = FreeFrame]
  BY <1>2, <1>5, FrameSet
<1> DEFINE v == IF m.modal = f THEN NoFrame ELSE m.modal
<1>3. n = SetModal(m, v) /\ v \in Handles
  BY <1>1, <1>2 DEF Screens, Handles, SetModal
<1> HIDE DEF v
<1>4. /\ n \in Screens /\ SamePages(m, n) /\ n.modal = v /\ n.task = m.task /\ n.frame = m.frame
  BY <1>1, <1>3, ModalSet
<1> QED
  BY <1>1, <1>4, SameIsTransitive DEF v

\* CancelModalDialog() leaves nothing that waits.
LEMMA ModalCancelled ==
    ASSUME NEW s \in Screens, ResumableIn(s), NEW n, n = CancelModalDialog(s)
    PROVE  n \in Screens /\ SamePages(s, n) /\ Quiet(n) /\ ResumableIn(n)
<1>1. CASE s.modal = NoFrame
  BY <1>1, OneAtATime, QuietIsResumable DEF CancelModalDialog, SamePages
<1>2. CASE s.modal # NoFrame
  <2> DEFINE f == s.modal
             m == [s EXCEPT !.modal = NoFrame]
  <2>1. /\ f \in Frames /\ s.frame[f].owner \in Owners
        /\ \A g \in Frames \ {f} : s.frame[g] = FreeFrame
        /\ \A o \in Owners \ {s.frame[f].owner} : s.task[o] = NoFrame
    BY <1>2, OneAtATime
  <2>2. m \in Screens /\ SamePages(s, m) /\ m.modal = NoFrame /\ m.task = s.task /\ m.frame = s.frame
    BY ModalSet, NoHandle DEF SetModal
  <2>3. n = Finish(m, f)
    BY <1>2 DEF CancelModalDialog
  <2> HIDE DEF m, f
  <2>4. /\ n \in Screens /\ SamePages(m, n) /\ n.modal = m.modal
        /\ n.task = [m.task EXCEPT ![m.frame[f].owner] = NoFrame]
        /\ n.frame = [m.frame EXCEPT ![f] = FreeFrame]
    BY <2>1, <2>2, <2>3, Finished
  <2>5. Quiet(n)
    BY <2>1, <2>2, <2>4 DEF Quiet, Screens
  <2> QED
    BY <2>2, <2>4, <2>5, SameIsTransitive, QuietIsResumable
<1> QED BY <1>1, <1>2

\* CoCancel(): either nothing waits any more, or the owner had nothing to cancel.
LEMMA Cancelled ==
    ASSUME NEW s \in Screens, ResumableIn(s), NEW o \in Owners, NEW n, n = CoCancel(s, o)
    PROVE  /\ n \in Screens /\ SamePages(s, n) /\ ResumableIn(n) /\ n.task[o] = NoFrame
           /\ Quiet(n) \/ n = s
<1>1. CASE s.task[o] = NoFrame
  BY <1>1 DEF CoCancel, SamePages
<1>2. CASE s.task[o] # NoFrame
  <2> DEFINE f == s.task[o]
             m == [s EXCEPT !.task[o] = NoFrame]
  <2>1. s.modal # NoFrame
    BY <1>2, OneAtATime DEF Quiet
  <2>2. /\ f \in Frames /\ f = s.modal
        /\ \A g \in Frames \ {f} : s.frame[g] = FreeFrame
        /\ \A q \in Owners \ {o} : s.task[q] = NoFrame
    BY <1>2, <2>1, OneAtATime
  <2>4. n = Destroy(m, f) /\ m = SetTask(s, o, NoFrame)
    BY <1>2 DEF CoCancel, SetTask
  <2> HIDE DEF m, f
  <2>3. m \in Screens /\ SamePages(s, m) /\ m.modal = s.modal /\ m.task = [s.task EXCEPT ![o] = NoFrame] /\ m.frame = s.frame
    BY <2>4, TaskSet, NoHandle
  <2>5. /\ n \in Screens /\ SamePages(m, n) /\ n.modal = NoFrame
        /\ n.task = m.task
        /\ n.frame = [m.frame EXCEPT ![f] = FreeFrame]
    BY <2>2, <2>3, <2>4, Destroyed
  <2>6. Quiet(n)
    BY <2>2, <2>3, <2>5 DEF Quiet, Screens
  <2> QED
    BY <2>3, <2>5, <2>6, SameIsTransitive, QuietIsResumable DEF Quiet
<1> QED BY <1>1, <1>2

\* StartTask: the new coroutine, which waits for its dialog, is the only one.
LEMMA Started ==
    ASSUME NEW s \in Screens, ResumableIn(s), NEW o \in Owners, s.task[o] = NoFrame, NEW d \in Dialogs,
           NEW n, n = StartTask(s, o, d)
    PROVE  /\ n \in Screens /\ SamePages(s, n) /\ ResumableIn(n)
           /\ n.modal # NoFrame /\ n.frame[n.modal].owner = o
<1> DEFINE f == CHOOSE g \in Frames : s.frame[g] = FreeFrame
           v == [owner |-> o, dialog |-> d]
           a == SetTask(s, o, f)
           b == SetFrame(a, f, v)
           c == CancelModalDialog(b)
<1>1. f \in Frames /\ s.frame[f] = FreeFrame
  <2>1. \E g \in Frames : s.frame[g] = FreeFrame
    BY ScreenAssumption, OneAtATime DEF Quiet
  <2> QED
    BY <2>1
<1>2. n = SetModal(c, f)
  BY DEF StartTask, ShowModalDialog, SetModal, SetFrame, SetTask
<1>3. v \in FrameStates /\ v.owner = o /\ v # FreeFrame
  <2>1. v \in FrameStates /\ v.owner = o
    BY DEF FrameStates
  <2> QED
    BY <2>1, ScreenAssumption DEF FreeFrame, Owners, ScreenPages
<1>4. f # NoFrame /\ f \in Handles
  BY <1>1, ScreenAssumption DEF Handles
<1>5. b = SetFrame(a, f, v) /\ a = SetTask(s, o, f) /\ c = CancelModalDialog(b)
  OBVIOUS
<1> HIDE DEF f, v, a, b, c
<1>6. /\ a \in Screens /\ SamePages(s, a) /\ a.modal = s.modal
      /\ a.task = [s.task EXCEPT ![o] = f] /\ a.frame = s.frame
  BY <1>4, <1>5, TaskSet
<1>7. /\ b \in Screens /\ SamePages(s, b) /\ b.modal = s.modal
      /\ b.task = [s.task EXCEPT ![o] = f] /\ b.frame = [s.frame EXCEPT ![f] = v]
  BY <1>1, <1>3, <1>5, <1>6, FrameSet, SameIsTransitive
<1>8. /\ c \in Screens /\ SamePages(s, c)
      /\ \A g \in Frames : c.frame[g] = IF g = f THEN v ELSE FreeFrame
      /\ \A q \in Owners : c.task[q] = IF q = o THEN f ELSE NoFrame
  <2>1. CASE s.modal = NoFrame
    <3>1. c = b /\ Quiet(s)
      BY <1>5, <1>7, <2>1, OneAtATime DEF CancelModalDialog
    <3> QED
      BY <1>7, <3>1 DEF Quiet, Screens
  <2>2. CASE s.modal # NoFrame
    <3> DEFINE h == s.modal
               q == s.frame[h].owner
               e == SetModal(b, NoFrame)
    <3>1. /\ h \in Frames /\ q \in Owners /\ s.task[q] = h
          /\ \A g \in Frames \ {h} : s.frame[g] = FreeFrame
          /\ \A p \in Owners \ {q} : s.task[p] = NoFrame
      BY <2>2, OneAtATime
    <3>2. h # f /\ q # o
      BY <1>1, <3>1, <2>2, FrameKinds
    <3>3. e \in Screens /\ SamePages(b, e) /\ e.task = b.task /\ e.frame = b.frame
      BY <1>7, ModalSet, NoHandle
    <3>4. c = Finish(e, h)
      BY <1>5, <1>7, <2>2 DEF CancelModalDialog, SetModal
    <3>5. e.frame[h].owner = q
      BY <1>7, <3>1, <3>2, <3>3 DEF Screens
    <3> HIDE DEF h, q, e
    <3>6. /\ c \in Screens /\ SamePages(e, c)
          /\ c.task = [e.task EXCEPT ![q] = NoFrame]
          /\ c.frame = [e.frame EXCEPT ![h] = FreeFrame]
      BY <3>1, <3>3, <3>4, <3>5, Finished
    <3>7. SamePages(s, c)
      BY <1>7, <3>3, <3>6, SameIsTransitive
    <3>8. \A g \in Frames : c.frame[g] = IF g = f THEN v ELSE FreeFrame
      BY <1>7, <3>1, <3>2, <3>3, <3>6 DEF Screens
    <3>9. \A p \in Owners : c.task[p] = IF p = o THEN f ELSE NoFrame
      BY <1>7, <3>1, <3>2, <3>3, <3>6 DEF Screens
    <3> QED
      BY <3>6, <3>7, <3>8, <3>9
  <2> QED BY <2>1, <2>2
<1>9. n \in Screens /\ SamePages(s, n) /\ n.modal = f /\ n.task = c.task /\ n.frame = c.frame
  BY <1>2, <1>4, <1>8, ModalSet, SameIsTransitive
<1>10. n.frame[f] = v
  BY <1>1, <1>8, <1>9
<1>11. ResumableIn(n)
  BY <1>1, <1>3, <1>4, <1>8, <1>9, <1>10 DEF ResumableIn
<1> QED
  BY <1>3, <1>4, <1>9, <1>10, <1>11

\* An answer, after which the coroutine ends ...
LEMMA Answered ==
    ASSUME NEW s \in Screens, ResumableIn(s), s.modal # NoFrame,
           NEW n, n = Finish([s EXCEPT !.modal = NoFrame], s.modal)
    PROVE  n \in Screens /\ SamePages(s, n) /\ Quiet(n) /\ ResumableIn(n)
<1>1. n = CancelModalDialog(s)
  BY DEF CancelModalDialog
<1> QED BY <1>1, ModalCancelled

\* ... or shows the next dialog.
LEMMA AskedAgain ==
    ASSUME NEW s \in Screens, ResumableIn(s), s.modal # NoFrame, NEW d \in Dialogs,
           NEW n, n = ShowModalDialog([[s EXCEPT !.modal = NoFrame] EXCEPT !.frame[s.modal].dialog = d], s.modal)
    PROVE  /\ n \in Screens /\ SamePages(s, n) /\ ResumableIn(n)
           /\ n.modal = s.modal /\ n.frame[n.modal].owner = s.frame[s.modal].owner
<1> DEFINE f == s.modal
           o == s.frame[f].owner
           v == [owner |-> o, dialog |-> d]
           a == SetModal(s, NoFrame)
           b == SetFrame(a, f, v)
<1>1. /\ f \in Frames /\ o \in Owners /\ s.task[o] = f /\ f \in Handles /\ f # NoFrame
      /\ s.frame[f] \in [owner : Owners, dialog : Dialogs]
      /\ \A g \in Frames \ {f} : s.frame[g] = FreeFrame
      /\ \A p \in Owners \ {o} : s.task[p] = NoFrame
  <2>1. s.frame[f] # FreeFrame /\ f \in Frames /\ s.frame[f] \in FrameStates
    BY OneAtATime, FrameKinds
  <2> QED
    BY <2>1, OneAtATime DEF FrameStates, Handles
<1>2. a \in Screens /\ SamePages(s, a) /\ a.modal = NoFrame /\ a.task = s.task /\ a.frame = s.frame
  BY ModalSet, NoHandle
<1>3. [a.frame[f] EXCEPT !.dialog = d] = v
  BY <1>1, <1>2
<1>4. [a EXCEPT !.frame[f].dialog = d] = b
  BY <1>3 DEF SetFrame
<1>5. v \in FrameStates /\ v.owner = o /\ v # FreeFrame
  <2>1. v \in FrameStates /\ v.owner = o
    BY <1>1 DEF FrameStates
  <2> QED
    BY <1>1, <2>1, ScreenAssumption DEF FreeFrame, Owners, ScreenPages
<1>6. n = ShowModalDialog(b, f)
  BY <1>4 DEF SetModal
<1>7. b = SetFrame(a, f, v)
  OBVIOUS
<1> HIDE DEF f, o, v, a, b
<1>8. /\ b \in Screens /\ SamePages(s, b) /\ b.modal = NoFrame
      /\ b.task = s.task /\ b.frame = [s.frame EXCEPT ![f] = v]
  BY <1>1, <1>2, <1>5, <1>7, FrameSet, SameIsTransitive
<1>9. n = SetModal(b, f)
  BY <1>6, <1>8 DEF ShowModalDialog, CancelModalDialog, SetModal
<1>10. /\ n \in Screens /\ SamePages(s, n) /\ n.modal = f
       /\ n.task = s.task /\ n.frame = [s.frame EXCEPT ![f] = v]
  BY <1>1, <1>8, <1>9, ModalSet, SameIsTransitive
<1>11. /\ \A g \in Frames : n.frame[g] = IF g = f THEN v ELSE FreeFrame
       /\ \A p \in Owners : n.task[p] = IF p = o THEN f ELSE NoFrame
  BY <1>1, <1>10, SMTT(60) DEF Screens
<1>12. ResumableIn(n)
  <2>1. f \in Frames /\ f # NoFrame /\ o \in Owners /\ n.modal = f
    BY <1>1, <1>10
  <2>2. n.frame[f] = v
    BY <1>11, <2>1
  <2> QED
    <3>1. \A g \in Frames : n.frame[g] # FreeFrame => n.modal = g /\ n.task[n.frame[g].owner] = g
      BY <1>5, <1>11, <2>1
    <3>2. \A p \in Owners : n.task[p] # NoFrame => n.frame[n.task[p]].owner = p
      BY <1>5, <1>11, <2>1, <2>2
    <3>3. n.modal # NoFrame => n.frame[n.modal] # FreeFrame
      BY <1>5, <2>1, <2>2
    <3> QED
      BY <3>1, <3>2, <3>3 DEF ResumableIn
<1> QED
  BY <1>1, <1>5, <1>10, <1>11, <1>12 DEF f, o

-----------------------------------------------------------------------------
(* Pages *)

AllFields == PageFields \cup {"modal", "task", "frame"}
SameBut(F, s, t) == \A k \in AllFields \ F : t[k] = s[k]

\* One field of the pages at a time
SetPage(s, v) == [s EXCEPT !.page = v]
SetPrev(s, v) == [s EXCEPT !.prev = v]
SetSub(s, v) == [s EXCEPT !.sub = v]
SetMade(s, v) == [s EXCEPT !.made = v]
SetOpen(s, v) == [s EXCEPT !.open = v]
SetPending(s, v) == [s EXCEPT !.pending = v]
SetMissed(s, v) == [s EXCEPT !.missed = v]
SetWindow(s, v) == [s EXCEPT !.window = v]
SetSize(s, v) == [s EXCEPT !.size = v]
SetLaid(s, v) == [s EXCEPT !.laid = v]
SetUpdated(s, v) == [s EXCEPT !.updated = v]

PageSizes == [ScreenPages -> {0} \cup Sizes]

\* The fields of the pages can be replaced in the same way: the current page,
LEMMA PageSet ==
    ASSUME NEW s \in Screens, NEW v \in TopPages \cup {NoPage}, NEW n, n = SetPage(s, v)
    PROVE  n \in Screens /\ n.page = v /\ SameBut({"page"}, s, n)
<1>1. n \in Screens
  BY DEF Screens, SetPage
<1>2. n.page = v
  BY DEF Screens, SetPage
<1>3. SameBut({"page"}, s, n)
  BY DEF Screens, SetPage, SameBut, AllFields, PageFields
<1> QED BY <1>1, <1>2, <1>3

\* ... the previous page,
LEMMA PrevSet ==
    ASSUME NEW s \in Screens, NEW v \in TopPages, NEW n, n = SetPrev(s, v)
    PROVE  n \in Screens /\ n.prev = v /\ SameBut({"prev"}, s, n)
<1>1. n \in Screens
  BY DEF Screens, SetPrev
<1>2. n.prev = v
  BY DEF Screens, SetPrev
<1>3. SameBut({"prev"}, s, n)
  BY DEF Screens, SetPrev, SameBut, AllFields, PageFields
<1> QED BY <1>1, <1>2, <1>3

\* ... the sub-page,
LEMMA SubSet ==
    ASSUME NEW s \in Screens, NEW v \in SubPages \cup {NoPage}, NEW n, n = SetSub(s, v)
    PROVE  n \in Screens /\ n.sub = v /\ SameBut({"sub"}, s, n)
<1>1. n \in Screens
  BY DEF Screens, SetSub
<1>2. n.sub = v
  BY DEF Screens, SetSub
<1>3. SameBut({"sub"}, s, n)
  BY DEF Screens, SetSub, SameBut, AllFields, PageFields
<1> QED BY <1>1, <1>2, <1>3

\* ... the pages that exist,
LEMMA MadeSet ==
    ASSUME NEW s \in Screens, NEW v \in SUBSET TopPages, NEW n, n = SetMade(s, v)
    PROVE  n \in Screens /\ n.made = v /\ SameBut({"made"}, s, n)
<1>1. n \in Screens
  BY DEF Screens, SetMade
<1>2. n.made = v
  BY DEF Screens, SetMade
<1>3. SameBut({"made"}, s, n)
  BY DEF Screens, SetMade, SameBut, AllFields, PageFields
<1> QED BY <1>1, <1>2, <1>3

\* ... the pages that are open,
LEMMA OpenSet ==
    ASSUME NEW s \in Screens, NEW v \in SUBSET ScreenPages, NEW n, n = SetOpen(s, v)
    PROVE  n \in Screens /\ n.open = v /\ SameBut({"open"}, s, n)
<1>1. n \in Screens
  BY DEF Screens, SetOpen
<1>2. n.open = v
  BY DEF Screens, SetOpen
<1>3. SameBut({"open"}, s, n)
  BY DEF Screens, SetOpen, SameBut, AllFields, PageFields
<1> QED BY <1>1, <1>2, <1>3

\* ... the pages with events to come,
LEMMA PendingSet ==
    ASSUME NEW s \in Screens, NEW v \in SUBSET ScreenPages, NEW n, n = SetPending(s, v)
    PROVE  n \in Screens /\ n.pending = v /\ SameBut({"pending"}, s, n)
<1>1. n \in Screens
  BY DEF Screens, SetPending
<1>2. n.pending = v
  BY DEF Screens, SetPending
<1>3. SameBut({"pending"}, s, n)
  BY DEF Screens, SetPending, SameBut, AllFields, PageFields
<1> QED BY <1>1, <1>2, <1>3

\* ... the pages that lack what was announced,
LEMMA MissedSet ==
    ASSUME NEW s \in Screens, NEW v \in SUBSET ScreenPages, NEW n, n = SetMissed(s, v)
    PROVE  n \in Screens /\ n.missed = v /\ SameBut({"missed"}, s, n)
<1>1. n \in Screens
  BY DEF Screens, SetMissed
<1>2. n.missed = v
  BY DEF Screens, SetMissed
<1>3. SameBut({"missed"}, s, n)
  BY DEF Screens, SetMissed, SameBut, AllFields, PageFields
<1> QED BY <1>1, <1>2, <1>3

\* ... the size of the window,
LEMMA WindowSet ==
    ASSUME NEW s \in Screens, NEW v \in Sizes, NEW n, n = SetWindow(s, v)
    PROVE  n \in Screens /\ n.window = v /\ SameBut({"window"}, s, n)
<1>1. n \in Screens
  BY DEF Screens, SetWindow
<1>2. n.window = v
  BY DEF Screens, SetWindow
<1>3. SameBut({"window"}, s, n)
  BY DEF Screens, SetWindow, SameBut, AllFields, PageFields
<1> QED BY <1>1, <1>2, <1>3

\* ... the sizes of the pages,
LEMMA SizeSet ==
    ASSUME NEW s \in Screens, NEW v \in PageSizes, NEW n, n = SetSize(s, v)
    PROVE  n \in Screens /\ n.size = v /\ SameBut({"size"}, s, n)
<1>1. n \in Screens
  BY DEF Screens, SetSize, PageSizes
<1>2. n.size = v
  BY DEF Screens, SetSize
<1>3. SameBut({"size"}, s, n)
  BY DEF Screens, SetSize, SameBut, AllFields, PageFields
<1> QED BY <1>1, <1>2, <1>3

\* ... whether the proxy has a size
LEMMA LaidSet ==
    ASSUME NEW s \in Screens, NEW v \in BOOLEAN, NEW n, n = SetLaid(s, v)
    PROVE  n \in Screens /\ n.laid = v /\ SameBut({"laid"}, s, n)
<1>1. n \in Screens
  BY DEF Screens, SetLaid
<1>2. n.laid = v
  BY DEF Screens, SetLaid
<1>3. SameBut({"laid"}, s, n)
  BY DEF Screens, SetLaid, SameBut, AllFields, PageFields
<1> QED BY <1>1, <1>2, <1>3

\* ... and whether it has had events.
LEMMA UpdatedSet ==
    ASSUME NEW s \in Screens, NEW v \in BOOLEAN, NEW n, n = SetUpdated(s, v)
    PROVE  n \in Screens /\ n.updated = v /\ SameBut({"updated"}, s, n)
<1>1. n \in Screens
  BY DEF Screens, SetUpdated
<1>2. n.updated = v
  BY DEF Screens, SetUpdated
<1>3. SameBut({"updated"}, s, n)
  BY DEF Screens, SetUpdated, SameBut, AllFields, PageFields
<1> QED BY <1>1, <1>2, <1>3

\* What MPD has announced will reach each page that does not show it.
Announced(s) == s.missed \subseteq s.pending \cup IF Proxy \in s.pending THEN SubPages ELSE {}

\* The sub-page has the size of its proxy, once that has one.
Together(s) ==
    /\ s.laid /\ s.sub # NoPage => s.size[s.sub] = s.size[Proxy]
    /\ ~s.laid => s.size[Proxy] = 0

\* What holds of every state, between two pages as well
Kept(s) == s \in Screens /\ ResumableIn(s) /\ Announced(s) /\ Together(s)

\* The dialog, if there is one, belongs to one of these.
OwnerIn(s, P) == s.modal # NoFrame => s.frame[s.modal].owner \in P

\* The pages that are seen fill the window.
Filled(s) == \A p \in Visible(s) : s.size[p] = s.window

\* A proxy that is shown has its size, its events and a page to show.
Ready(s) == s.page = Proxy => s.laid /\ s.updated /\ s.sub # NoPage

\* What holds of every state between two steps
ScreenInvOf(s) ==
    /\ Kept(s) /\ s.open = Visible(s) /\ Filled(s) /\ Ready(s)
    /\ s.missed \cap Visible(s) = {}
    /\ OwnerIn(s, Visible(s) \cup {Password})

\* The fields of the dialog and the coroutines
Talk == {"modal", "task", "frame"}

\* The pages, the owner of the password dialog and what stands for no page are distinct.
LEMMA PagesApart ==
    /\ Proxy \in TopPages /\ FirstPage \in TopPages /\ FirstSubPage \in SubPages
    /\ Proxy \notin SubPages /\ NoPage \notin ScreenPages /\ Password \notin ScreenPages
    /\ TopPages \subseteq ScreenPages /\ SubPages \subseteq ScreenPages /\ ScreenPages \subseteq Owners
    /\ Password \in Owners /\ NoPage # Password
    /\ Sizes \subseteq Nat \ {0} /\ \A p \in TopPages : p \notin SubPages
  BY ScreenAssumption DEF ScreenPages, Owners

\* A step that touches neither dialog nor coroutine leaves what is said of them true.
LEMMA SameTalk ==
    ASSUME NEW s \in Screens, NEW t \in Screens, NEW F, F \cap Talk = {}, SameBut(F, s, t)
    PROVE  /\ t.modal = s.modal /\ t.task = s.task /\ t.frame = s.frame
           /\ ResumableIn(s) => ResumableIn(t)
           /\ Quiet(s) => Quiet(t)
           /\ \A P : OwnerIn(s, P) => OwnerIn(t, P)
<1>1. t.modal = s.modal /\ t.task = s.task /\ t.frame = s.frame
  BY DEF SameBut, AllFields, Talk
<1> QED
  BY <1>1 DEF ResumableIn, Quiet, OwnerIn

\* A step that touches no size leaves what is said of sizes true.
LEMMA SameSizes ==
    ASSUME NEW s \in Screens, NEW t \in Screens, NEW F, F \cap {"sub", "laid", "size"} = {}, SameBut(F, s, t),
           Together(s)
    PROVE  Together(t)
<1>1. t.sub = s.sub /\ t.size = s.size
  BY DEF SameBut, AllFields, PageFields
<1>2. t.laid = s.laid
  BY DEF SameBut, AllFields, PageFields
<1> QED
  BY <1>1, <1>2 DEF Together

\* A step that touches dialog and coroutines only leaves what is said of pages true.
LEMMA TalkChanged ==
    ASSUME NEW s \in Screens, NEW t \in Screens, SamePages(s, t)
    PROVE  /\ SameBut(Talk, s, t)
           /\ Announced(s) => Announced(t)
           /\ Together(s) => Together(t)
           /\ Kept(s) /\ ResumableIn(t) => Kept(t)
           /\ Visible(t) = Visible(s)
<1>1. SameBut(Talk, s, t)
  BY DEF SamePages, SameBut, AllFields, Talk
<1>2. Announced(s) => Announced(t)
  BY DEF Announced, SamePages, PageFields
<1>3. Together(s) => Together(t)
  BY <1>1, SameSizes DEF Talk
<1>4. Visible(t) = Visible(s)
  BY DEF Visible, SamePages, PageFields
<1> QED
  BY <1>1, <1>2, <1>3, <1>4 DEF Kept

\* Page::Update()
LEMMA OneUpdated ==
    ASSUME NEW s \in Screens, NEW p \in ScreenPages, NEW n, n = UpdateOne(s, p)
    PROVE  /\ n \in Screens /\ SameBut({"pending", "missed"}, s, n)
           /\ n.pending = s.pending \ {p} /\ n.missed = s.missed \ {p}
<1> DEFINE v == s.pending \ {p}
           m == SetPending(s, v)
           w == m.missed \ {p}
<1>1. v \in SUBSET ScreenPages
  BY DEF Screens
<1>2. n = SetMissed(m, w)
  BY DEF UpdateOne, SetPending, SetMissed
<1>3. m = SetPending(s, v)
  OBVIOUS
<1> HIDE DEF m, v
<1>4. m \in Screens /\ m.pending = v /\ SameBut({"pending"}, s, m)
  BY <1>1, <1>3, PendingSet
<1>5. w \in SUBSET ScreenPages
  BY <1>4 DEF Screens
<1>6. n \in Screens /\ n.missed = w /\ SameBut({"missed"}, m, n)
  BY <1>2, <1>4, <1>5, MissedSet
<1>7. SameBut({"pending", "missed"}, s, n)
  BY <1>4, <1>6 DEF SameBut
<1>8. m.missed = s.missed /\ n.pending = m.pending
  BY <1>4, <1>6 DEF SameBut, AllFields, PageFields
<1> QED
  BY <1>4, <1>6, <1>7, <1>8 DEF v

\* A page that has been updated shows everything, and so does its sub-page; no event is lost on the way.
LEMMA PageUpdated ==
    ASSUME NEW s, Kept(s), NEW p \in TopPages, NEW n, n = UpdatePage(s, p)
    PROVE  /\ Kept(n) /\ SameBut({"pending", "missed", "updated"}, s, n)
           /\ p \notin n.missed /\ n.missed \subseteq s.missed
           /\ p = Proxy => n.updated /\ s.sub \notin n.missed
<1>1. s \in Screens /\ ResumableIn(s) /\ Announced(s) /\ Together(s)
  BY DEF Kept
<1>2. s.pending \subseteq ScreenPages /\ s.missed \subseteq ScreenPages /\ s.sub \in SubPages \cup {NoPage}
  BY <1>1 DEF Screens
<1>3. CASE p # Proxy
  <2>1. n = UpdateOne(s, p)
    BY <1>3 DEF UpdatePage
  <2>2. /\ n \in Screens /\ SameBut({"pending", "missed"}, s, n)
        /\ n.pending = s.pending \ {p} /\ n.missed = s.missed \ {p}
    BY <1>1, <2>1, OneUpdated, PagesApart
  <2>3. Announced(n)
    BY <1>1, <1>3, <2>2, PagesApart DEF Announced
  <2>4. ResumableIn(n)
    BY <1>1, <2>2, SameTalk DEF Talk
  <2>5. Together(n)
    BY <1>1, <2>2, SameSizes
  <2>6. SameBut({"pending", "missed", "updated"}, s, n)
    BY <2>2 DEF SameBut
  <2> QED
    BY <1>3, <2>2, <2>3, <2>4, <2>5, <2>6 DEF Kept
<1>4. CASE p = Proxy
  <2> DEFINE a == SetUpdated(s, TRUE)
             v == IF Proxy \in a.pending THEN a.pending \cup SubPages ELSE a.pending
             b == SetPending(a, v)
             c == IF b.sub = NoPage THEN b ELSE UpdateOne(b, b.sub)
  <2>1. a \in Screens /\ SameBut({"updated"}, s, a)
    BY <1>1, UpdatedSet
  <2>2. a.updated = TRUE
    BY <1>1, UpdatedSet
  <2>3. a.pending = s.pending /\ v \in SUBSET ScreenPages /\ s.sub = a.sub
    <3>1. a.pending = s.pending /\ s.sub = a.sub
      BY <2>1 DEF SameBut, AllFields, PageFields
    <3> QED
      BY <1>2, <3>1, PagesApart
  <2>4. b = SetPending(a, v) /\ v = IF Proxy \in s.pending THEN s.pending \cup SubPages ELSE s.pending
    BY <2>3
  <2>5. n = UpdateOne(c, Proxy)
    <3> DEFINE fed == [s EXCEPT !.updated = TRUE,
                              !.pending = IF Proxy \in @ THEN @ \cup SubPages ELSE @]
    <3>1. fed = b
      BY <2>3 DEF SetUpdated, SetPending
    <3>2. n = UpdateOne(IF s.sub = NoPage THEN fed ELSE UpdateOne(fed, s.sub), Proxy)
      BY <1>4 DEF UpdatePage
    <3> HIDE DEF fed, a, v
    <3>3. s.sub = b.sub
      BY <2>1, <2>3, <2>4, PendingSet DEF SameBut, AllFields, PageFields
    <3> QED
      BY <3>1, <3>2, <3>3
  <2>6. c = IF b.sub = NoPage THEN b ELSE UpdateOne(b, b.sub)
    OBVIOUS
  <2> HIDE DEF a, v, b, c
  <2>7. b \in Screens /\ b.pending = v /\ SameBut({"pending"}, a, b)
    BY <2>1, <2>3, <2>4, PendingSet
  <2>8. b.sub = s.sub /\ b.missed = s.missed
    BY <2>1, <2>7 DEF SameBut, AllFields, PageFields
  <2>9. /\ c \in Screens /\ SameBut({"pending", "missed"}, b, c)
        /\ c.pending = b.pending \ {b.sub} /\ c.missed = b.missed \ {b.sub}
    <3>1. CASE b.sub = NoPage
      <4>1. b.pending \subseteq ScreenPages /\ b.missed \subseteq ScreenPages
        BY <2>7 DEF Screens
      <4>2. c = b
        BY <2>6, <3>1
      <4>3. b.pending = b.pending \ {b.sub} /\ b.missed = b.missed \ {b.sub}
        BY <3>1, <4>1, PagesApart
      <4>4. SameBut({"pending", "missed"}, b, b)
        BY DEF SameBut
      <4> QED
        BY <2>7, <4>2, <4>3, <4>4
    <3>2. CASE b.sub # NoPage
      <4>1. b.sub \in ScreenPages /\ c = UpdateOne(b, b.sub)
        BY <1>2, <2>6, <2>8, <3>2, PagesApart
      <4> QED
        BY <2>7, <4>1, OneUpdated
    <3> QED BY <3>1, <3>2
  <2>10. /\ n \in Screens /\ SameBut({"pending", "missed"}, c, n)
         /\ n.pending = c.pending \ {Proxy} /\ n.missed = c.missed \ {Proxy}
    BY <2>5, <2>9, OneUpdated, PagesApart
  <2>11. SameBut({"pending", "missed", "updated"}, s, n)
    BY <2>1, <2>7, <2>9, <2>10 DEF SameBut
  <2>12. n.pending = (v \ {s.sub}) \ {Proxy} /\ n.missed = (s.missed \ {s.sub}) \ {Proxy}
    BY <2>7, <2>8, <2>9, <2>10
  <2>13. Announced(n)
    <3>1. s.missed \subseteq v \cup {Proxy}
      BY <1>1, <2>4 DEF Announced
    <3> QED
      BY <2>12, <3>1 DEF Announced
  <2>14. n.updated = TRUE
    BY <2>2, <2>7, <2>9, <2>10 DEF SameBut, AllFields, PageFields
  <2>15. ResumableIn(n)
    BY <1>1, <2>10, <2>11, SameTalk DEF Talk
  <2>16. Together(n)
    BY <1>1, <2>10, <2>11, SameSizes
  <2>17. Kept(n)
    BY <2>10, <2>13, <2>15, <2>16 DEF Kept
  <2> QED
    BY <1>4, <2>11, <2>12, <2>14, <2>17
<1> QED BY <1>3, <1>4

\* A page that is constructed has all events before it.
LEMMA PageMade ==
    ASSUME NEW s, Kept(s), NEW p \in TopPages, NEW n, n = MakePage(s, p)
    PROVE  Kept(n) /\ SameBut({"made", "pending", "missed"}, s, n)
<1>1. s \in Screens /\ ResumableIn(s) /\ Announced(s) /\ Together(s)
  BY DEF Kept
<1>2. CASE p \in s.made
  BY <1>2 DEF MakePage, SameBut
<1>3. CASE p \notin s.made
  <2> DEFINE new == {p} \cup IF p = Proxy THEN SubPages ELSE {}
             u == s.made \cup {p}
             a == SetMade(s, u)
             v == a.pending \cup new
             b == SetPending(a, v)
             w == b.missed \cup new
  <2>1. n = SetMissed(b, w)
    BY <1>3 DEF MakePage, SetMade, SetPending, SetMissed
  <2>2. new \subseteq ScreenPages /\ u \in SUBSET TopPages
    BY <1>1, PagesApart DEF Screens
  <2>3. a = SetMade(s, u) /\ v = a.pending \cup new /\ b = SetPending(a, v) /\ w = b.missed \cup new
    OBVIOUS
  <2> HIDE DEF u, a, v, b, w, new
  <2>4. a \in Screens /\ SameBut({"made"}, s, a)
    BY <1>1, <2>2, <2>3, MadeSet
  <2>5. v \in SUBSET ScreenPages
    BY <2>2, <2>3, <2>4 DEF Screens
  <2>6. b \in Screens /\ b.pending = v /\ SameBut({"pending"}, a, b)
    BY <2>3, <2>4, <2>5, PendingSet
  <2>7. w \in SUBSET ScreenPages
    BY <2>2, <2>3, <2>6 DEF Screens
  <2>8. n \in Screens /\ n.missed = w /\ SameBut({"missed"}, b, n)
    BY <2>1, <2>6, <2>7, MissedSet
  <2>9. SameBut({"made", "pending", "missed"}, s, n)
    BY <2>4, <2>6, <2>8 DEF SameBut
  <2>10. n.pending = s.pending \cup new /\ n.missed = s.missed \cup new
    BY <2>3, <2>4, <2>6, <2>8, ZenonT(60) DEF SameBut, AllFields, PageFields
  <2>11. Announced(n)
    BY <1>1, <2>10 DEF Announced
  <2>12. ResumableIn(n)
    BY <1>1, <2>8, <2>9, SameTalk DEF Talk
  <2>13. Together(n)
    BY <1>1, <2>8, <2>9, SameSizes
  <2> QED
    BY <2>8, <2>9, <2>11, <2>12, <2>13 DEF Kept
<1> QED BY <1>2, <1>3

\* OnClose(): what is left of the dialog is not the page's.
LEMMA OneClosed ==
    ASSUME NEW s, Kept(s), NEW p \in ScreenPages, NEW n, n = CloseOne(s, p)
    PROVE  /\ Kept(n) /\ n.open = s.open \ {p} /\ SameBut(Talk \cup {"open"}, s, n)
           /\ \A P : OwnerIn(s, P) => OwnerIn(n, P \ {p})
<1>1. s \in Screens /\ ResumableIn(s) /\ Announced(s) /\ Together(s) /\ p \in Owners
  BY PagesApart DEF Kept
<1> DEFINE c == CoCancel(s, p)
           v == c.open \ {p}
<1>2. n = SetOpen(c, v) /\ c = CoCancel(s, p) /\ v = c.open \ {p}
  BY DEF CloseOne, SetOpen
<1> HIDE DEF c, v
<1>3. /\ c \in Screens /\ SamePages(s, c) /\ ResumableIn(c) /\ c.task[p] = NoFrame
      /\ Quiet(c) \/ c = s
  BY <1>1, <1>2, Cancelled
<1>4. Kept(c) /\ SameBut(Talk, s, c) /\ c.open = s.open
  <2>1. SameBut(Talk, s, c) /\ (Kept(s) /\ ResumableIn(c) => Kept(c))
    BY <1>1, <1>3, TalkChanged
  <2>2. c.open = s.open
    BY <1>3 DEF SamePages, PageFields
  <2> QED
    BY <1>3, <2>1, <2>2
<1>5. v \in SUBSET ScreenPages
  BY <1>2, <1>3 DEF Screens
<1>6. n \in Screens /\ n.open = v /\ SameBut({"open"}, c, n)
  BY <1>2, <1>3, <1>5, OpenSet
<1>7. Kept(n)
  <2>1. ResumableIn(n)
    BY <1>3, <1>6, SameTalk DEF Talk
  <2>2. Together(n)
    BY <1>3, <1>4, <1>6, SameSizes DEF Kept
  <2>3. Announced(n)
    BY <1>4, <1>6 DEF Kept, Announced, SameBut, AllFields, PageFields
  <2> QED
    BY <1>6, <2>1, <2>2, <2>3 DEF Kept
<1>8. ASSUME NEW P, OwnerIn(s, P) PROVE OwnerIn(n, P \ {p})
  <2>1. OwnerIn(c, P \ {p})
    <3>1. CASE Quiet(c)
      BY <3>1 DEF Quiet, OwnerIn
    <3>2. CASE c = s
      BY <1>1, <1>3, <1>8, <3>2, OneAtATime DEF OwnerIn
    <3> QED BY <1>3, <3>1, <3>2
  <2> QED
    BY <1>3, <1>6, <2>1, SameTalk DEF Talk
<1>9. SameBut(Talk \cup {"open"}, s, n)
  BY <1>4, <1>6 DEF SameBut
<1> QED
  BY <1>2, <1>4, <1>6, <1>7, <1>8, <1>9

\* A page that is left is closed with its sub-page, and no dialog of theirs is left.
LEMMA PageClosed ==
    ASSUME NEW s, Kept(s), s.page \in TopPages, s.open = Visible(s),
           OwnerIn(s, Visible(s) \cup {Password}), NEW n, n = ClosePage(s, s.page)
    PROVE  /\ Kept(n) /\ n.open = {} /\ SameBut(Talk \cup {"open"}, s, n)
           /\ OwnerIn(n, {Password})
<1>1. s.sub \in SubPages \cup {NoPage} /\ s.page # NoPage
  BY PagesApart DEF Kept, Screens
<1>2. CASE s.page = Proxy /\ s.sub # NoPage
  <2> DEFINE a == CloseOne(s, s.sub)
  <2>1. n = CloseOne(a, s.page) /\ a = CloseOne(s, s.sub)
    BY <1>2 DEF ClosePage
  <2> HIDE DEF a
  <2>2. Visible(s) = {s.page, s.sub}
    BY <1>1, <1>2 DEF Visible
  <2>3. /\ Kept(a) /\ a.open = s.open \ {s.sub} /\ SameBut(Talk \cup {"open"}, s, a)
        /\ OwnerIn(a, (Visible(s) \cup {Password}) \ {s.sub})
    BY <1>1, <1>2, <2>1, OneClosed, PagesApart
  <2>4. /\ Kept(n) /\ n.open = a.open \ {s.page} /\ SameBut(Talk \cup {"open"}, a, n)
        /\ OwnerIn(n, ((Visible(s) \cup {Password}) \ {s.sub}) \ {s.page})
    <3>1. s.page \in ScreenPages
      BY PagesApart
    <3>2. /\ Kept(n) /\ n.open = a.open \ {s.page} /\ SameBut(Talk \cup {"open"}, a, n)
          /\ \A P : OwnerIn(a, P) => OwnerIn(n, P \ {s.page})
      <4>1. Kept(a)
        BY <2>3
      <4> QED
        BY <2>1, <3>1, <4>1, OneClosed
    <3> QED
      BY <2>3, <3>2
  <2>5. SameBut(Talk \cup {"open"}, s, n)
    BY <2>3, <2>4 DEF SameBut
  <2>6. OwnerIn(n, {Password})
    BY <2>2, <2>4 DEF OwnerIn
  <2> QED
    BY <2>2, <2>3, <2>4, <2>5, <2>6
<1>3. CASE ~(s.page = Proxy /\ s.sub # NoPage)
  <2>1. n = CloseOne(s, s.page)
    BY <1>3 DEF ClosePage
  <2>2. Visible(s) = {s.page}
    BY <1>1, <1>3 DEF Visible
  <2>3. /\ Kept(n) /\ n.open = s.open \ {s.page} /\ SameBut(Talk \cup {"open"}, s, n)
        /\ OwnerIn(n, (Visible(s) \cup {Password}) \ {s.page})
    BY <2>1, OneClosed, PagesApart
  <2>4. OwnerIn(n, {Password})
    BY <2>2, <2>3 DEF OwnerIn
  <2> QED
    BY <2>2, <2>3, <2>4
<1> QED BY <1>2, <1>3

\* Only the proxy is open, and perhaps its sub-page.
ProxyIsOpen(s) == Proxy \in s.open /\ s.open \subseteq {Proxy, s.sub}

\* ProxyPage::SetCurrentPage() while the proxy is open
LEMMA SubPageShown ==
    ASSUME NEW s, Kept(s), NEW q \in SubPages, q # s.sub, ProxyIsOpen(s),
           NEW n, n = SetCurrentPage(s, q)
    PROVE  /\ Kept(n) /\ n.open = {Proxy, q} /\ n.sub = q
           /\ SameBut(Talk \cup {"open", "sub", "size", "pending", "missed"}, s, n)
           /\ \A P : OwnerIn(s, P) => OwnerIn(n, P \ {s.sub})
           /\ n.missed \subseteq s.missed
           /\ s.laid /\ s.updated => q \notin n.missed
           /\ \A p \in TopPages : n.size[p] = s.size[p]
           /\ s.laid => n.size[q] = s.size[Proxy]
<1>1. s \in Screens /\ ResumableIn(s) /\ Announced(s) /\ Together(s) /\ s.sub \in SubPages \cup {NoPage}
  BY DEF Kept, Screens
<1> USE DEF ProxyIsOpen
<1> DEFINE c == IF s.sub # NoPage /\ Proxy \in s.open THEN CloseOne(s, s.sub) ELSE s
           a == SetSub(c, q)
           u == a.open \cup {q}
           b == SetOpen(a, u)
           z == [b.size EXCEPT ![q] = s.size[Proxy]]
           e == SetSize(b, z)
<1>2. n = IF ~s.laid THEN b ELSE IF s.updated THEN UpdateOne(e, q) ELSE e
  <2> DEFINE closed == IF s.sub # NoPage /\ Proxy \in s.open THEN CloseOne(s, s.sub) ELSE s
             shown == [closed EXCEPT !.sub = q, !.open = @ \cup {q}]
             sized == [shown EXCEPT !.size[q] = s.size[Proxy]]
  <2>1. n = IF ~s.laid THEN shown ELSE IF s.updated THEN UpdateOne(sized, q) ELSE sized
    BY DEF SetCurrentPage
  <2>2. shown = b
    BY DEF SetSub, SetOpen
  <2>3. sized = e
    BY <2>2 DEF SetSize
  <2> QED
    BY <2>1, <2>2, <2>3
<1>3. /\ c = IF s.sub # NoPage /\ Proxy \in s.open THEN CloseOne(s, s.sub) ELSE s
      /\ a = SetSub(c, q) /\ u = a.open \cup {q} /\ b = SetOpen(a, u)
      /\ z = [b.size EXCEPT ![q] = s.size[Proxy]] /\ e = SetSize(b, z)
  OBVIOUS
<1> HIDE DEF c, a, u, b, z, e
<1>4. /\ Kept(c) /\ c.open = {Proxy} /\ SameBut(Talk \cup {"open"}, s, c)
      /\ \A P : OwnerIn(s, P) => OwnerIn(c, P \ {s.sub})
  <2>1. CASE s.sub = NoPage
    <3>1. c = s
      BY <1>3, <2>1
    <3>2. s.open = {Proxy}
      BY <1>1, <2>1, PagesApart DEF Screens
    <3>3. \A P : OwnerIn(s, P) => OwnerIn(s, P \ {s.sub})
      <4>1. NoPage \notin Owners
        BY PagesApart DEF Owners
      <4> QED
        BY <1>1, <2>1, <4>1, OneAtATime DEF OwnerIn
    <3> QED
      BY <3>1, <3>2, <3>3 DEF SameBut
  <2>2. CASE s.sub # NoPage
    <3>1. c = CloseOne(s, s.sub)
      BY <1>3, <2>2
    <3>2. s.sub \in ScreenPages /\ s.sub # Proxy
      BY <1>1, <2>2, PagesApart
    <3>3. /\ Kept(c) /\ c.open = s.open \ {s.sub} /\ SameBut(Talk \cup {"open"}, s, c)
          /\ \A P : OwnerIn(s, P) => OwnerIn(c, P \ {s.sub})
      BY <3>1, <3>2, OneClosed
    <3> QED
      BY <3>2, <3>3
  <2> QED BY <2>1, <2>2
<1>5. a \in Screens /\ a.sub = q /\ SameBut({"sub"}, c, a)
  BY <1>3, <1>4, SubSet DEF Kept
<1>6. u = {Proxy, q} /\ u \in SUBSET ScreenPages
  <2>1. a.open = c.open
    BY <1>5 DEF SameBut, AllFields, PageFields
  <2> QED
    BY <1>3, <1>4, <2>1, PagesApart
<1>7. b \in Screens /\ b.open = {Proxy, q} /\ SameBut({"open"}, a, b)
  BY <1>3, <1>5, <1>6, OpenSet
<1>8. SameBut(Talk \cup {"open", "sub"}, s, b)
  BY <1>4, <1>5, <1>7 DEF SameBut
<1>9. ResumableIn(b) /\ \A P : OwnerIn(s, P) => OwnerIn(b, P \ {s.sub})
  <2>1. SameBut({"open", "sub"}, c, b)
    BY <1>5, <1>7 DEF SameBut
  <2> QED
    BY <1>4, <1>7, <2>1, SameTalk DEF Talk, Kept
<1>10. b.size = s.size /\ b.missed = s.missed /\ b.pending = s.pending /\ b.sub = q
  BY <1>5, <1>7, <1>8 DEF SameBut, AllFields, PageFields, Talk
<1>11. b.laid = s.laid
  BY <1>8 DEF SameBut, AllFields, PageFields, Talk
<1>12. Announced(b)
  BY <1>1, <1>10 DEF Announced
<1>13. s.size \in PageSizes /\ Proxy \in ScreenPages /\ q \in ScreenPages /\ Proxy # q
  BY <1>1, PagesApart DEF Screens, PageSizes
<1>14. CASE ~s.laid
  <2>1. n = b
    BY <1>2, <1>14
  <2>2. Together(b)
    BY <1>1, <1>10, <1>11, <1>14 DEF Together
  <2>3. Kept(b)
    BY <1>7, <1>9, <1>12, <2>2 DEF Kept
  <2>4. SameBut(Talk \cup {"open", "sub", "size", "pending", "missed"}, s, b)
    BY <1>8 DEF SameBut
  <2> QED
    BY <1>7, <1>9, <1>10, <1>14, <2>1, <2>3, <2>4
<1>15. CASE s.laid
  <2>1. z \in PageSizes
    BY <1>3, <1>10, <1>13 DEF PageSizes
  <2>2. e \in Screens /\ e.size = z /\ SameBut({"size"}, b, e)
    BY <1>3, <1>7, <2>1, SizeSet, SMTT(30)
  <2>3. SameBut(Talk \cup {"open", "sub", "size"}, s, e)
    BY <1>8, <2>2 DEF SameBut
  <2>4. ResumableIn(e) /\ \A P : OwnerIn(s, P) => OwnerIn(e, P \ {s.sub})
    BY <1>7, <1>9, <2>2, SameTalk DEF Talk
  <2>5. e.missed = s.missed /\ e.pending = s.pending /\ e.sub = q /\ e.open = {Proxy, q}
    BY <1>7, <1>10, <2>2 DEF SameBut, AllFields, PageFields
  <2>6. e.laid = s.laid
    BY <1>11, <2>2 DEF SameBut, AllFields, PageFields
  <2>7. Announced(e)
    BY <1>1, <2>5 DEF Announced
  <2>8. e.size[q] = s.size[Proxy] /\ \A p \in TopPages : e.size[p] = s.size[p]
    <3>1. \A p \in TopPages : p \in ScreenPages /\ p # q
      BY PagesApart
    <3>2. e.size = [s.size EXCEPT ![q] = s.size[Proxy]]
      BY <1>3, <1>10, <2>2
    <3>3. DOMAIN s.size = ScreenPages
      BY <1>13 DEF PageSizes
    <3> QED
      BY <1>13, <3>1, <3>2, <3>3
  <2>9. Together(e)
    BY <1>15, <2>5, <2>6, <2>8, PagesApart DEF Together
  <2>10. Kept(e)
    BY <2>2, <2>4, <2>7, <2>9 DEF Kept
  <2>11. CASE ~s.updated
    <3>1. n = e
      BY <1>2, <1>15, <2>11
    <3>2. SameBut(Talk \cup {"open", "sub", "size", "pending", "missed"}, s, e)
      BY <2>3 DEF SameBut
    <3> QED
      BY <2>4, <2>5, <2>8, <2>10, <2>11, <3>1, <3>2
  <2>12. CASE s.updated
    <3>1. n = UpdateOne(e, q)
      BY <1>2, <1>15, <2>12
    <3>3. /\ n \in Screens /\ SameBut({"pending", "missed"}, e, n)
          /\ n.pending = e.pending \ {q} /\ n.missed = e.missed \ {q}
      BY <1>13, <2>2, <3>1, OneUpdated
    <3>4. ResumableIn(n) /\ \A P : OwnerIn(s, P) => OwnerIn(n, P \ {s.sub})
      BY <2>2, <2>4, <3>3, SameTalk DEF Talk
    <3>5. Together(n)
      BY <2>2, <2>9, <3>3, SameSizes
    <3>6. Announced(n)
      BY <1>13, <2>7, <3>3 DEF Announced
    <3>7. n.size = e.size /\ n.sub = q /\ n.open = {Proxy, q}
      BY <2>5, <3>3 DEF SameBut, AllFields, PageFields
    <3>8. SameBut(Talk \cup {"open", "sub", "size", "pending", "missed"}, s, n)
      BY <2>3, <3>3 DEF SameBut
    <3>9. n.missed \subseteq s.missed /\ q \notin n.missed
      BY <2>5, <3>3
    <3>10. Kept(n)
      BY <3>3, <3>4, <3>5, <3>6 DEF Kept
    <3> QED
      BY <2>8, <3>4, <3>7, <3>8, <3>9, <3>10
  <2> QED BY <2>11, <2>12
<1> QED BY <1>14, <1>15

\* A page that has been resized fills the window, with its sub-page.
LEMMA PageResized ==
    ASSUME NEW s, Kept(s), s.page \in TopPages, s.page = Proxy => s.sub # NoPage,
           NEW n, n = ResizePage(s, s.page)
    PROVE  /\ Kept(n) /\ SameBut({"size", "laid"}, s, n) /\ Filled(n)
           /\ s.page = Proxy => n.laid
<1> DEFINE p == s.page
<1>1. /\ s \in Screens /\ ResumableIn(s) /\ Announced(s) /\ Together(s) /\ s.sub \in SubPages \cup {NoPage}
      /\ s.size \in PageSizes /\ s.window \in Sizes /\ p \in ScreenPages /\ p # NoPage
      /\ s.window # 0
  BY PagesApart DEF Kept, Screens, PageSizes
<1>2. Visible(s) = IF p = Proxy THEN {Proxy, s.sub} ELSE {p}
  BY <1>1 DEF Visible
<1>3. CASE s.size[p] = s.window
  <2>1. n = s
    BY <1>3 DEF ResizePage
  <2>2. p = Proxy => s.laid /\ s.size[s.sub] = s.window
    BY <1>1, <1>3 DEF Together
  <2>3. Filled(s)
    BY <1>2, <1>3, <2>2 DEF Filled
  <2> QED
    BY <2>1, <2>2, <2>3 DEF SameBut
<1>4. CASE s.size[p] # s.window /\ p # Proxy
  <2> DEFINE z == [s.size EXCEPT ![p] = s.window]
  <2>1. n = SetSize(s, z)
    BY <1>4 DEF ResizePage, SetSize
  <2>2. z \in PageSizes /\ z[p] = s.window /\ \A q \in ScreenPages \ {p} : z[q] = s.size[q]
    BY <1>1 DEF PageSizes
  <2> HIDE DEF z
  <2>3. n \in Screens /\ n.size = z /\ SameBut({"size"}, s, n)
    BY <1>1, <2>1, <2>2, SizeSet
  <2>4. /\ ResumableIn(n) /\ n.missed = s.missed /\ n.pending = s.pending /\ n.sub = s.sub
        /\ n.page = s.page /\ n.window = s.window
    <3>1. ResumableIn(n)
      BY <1>1, <2>3, SameTalk DEF Talk
    <3>2. n.missed = s.missed /\ n.pending = s.pending /\ n.sub = s.sub
      BY <2>3 DEF SameBut, AllFields, PageFields
    <3>3. n.page = s.page /\ n.window = s.window
      BY <2>3 DEF SameBut, AllFields, PageFields
    <3> QED
      BY <3>1, <3>2, <3>3
  <2>5. n.laid = s.laid
    BY <2>3 DEF SameBut, AllFields, PageFields
  <2>6. p \notin SubPages
    BY PagesApart
  <2>7. Together(n)
    BY <1>1, <1>4, <2>2, <2>3, <2>4, <2>5, <2>6, PagesApart DEF Together
  <2>8. Filled(n)
    BY <1>1, <1>4, <2>2, <2>3, <2>4 DEF Filled, Visible
  <2>9. Announced(n)
    BY <1>1, <2>4 DEF Announced
  <2>10. Kept(n)
    BY <2>3, <2>4, <2>7, <2>9 DEF Kept
  <2>11. SameBut({"size", "laid"}, s, n)
    BY <2>3 DEF SameBut
  <2> QED
    BY <1>4, <2>8, <2>10, <2>11
<1>5. CASE s.size[p] # s.window /\ p = Proxy
  <2> DEFINE z == [q \in ScreenPages |-> IF q \in {p, s.sub} THEN s.window ELSE s.size[q]]
             a == SetLaid(s, TRUE)
  <2>1. n = SetSize(a, z)
    <3>1. n = [s EXCEPT !.laid = TRUE,
                   !.size = [q \in ScreenPages |-> IF q \in {p, s.sub} THEN s.window ELSE @[q]]]
      BY <1>5 DEF ResizePage
    <3> QED
      BY <1>1, <3>1 DEF SetSize, SetLaid, Screens
  <2>2. z \in PageSizes /\ z[p] = s.window /\ z[s.sub] = s.window
    BY <1>1, <1>5, PagesApart DEF PageSizes
  <2>3. a = SetLaid(s, TRUE)
    OBVIOUS
  <2> HIDE DEF z, a
  <2>4. a \in Screens /\ SameBut({"laid"}, s, a)
    BY <1>1, <2>3, LaidSet
  <2>5. a.laid = TRUE
    BY <1>1, <2>3, LaidSet
  <2>6. n \in Screens /\ n.size = z /\ SameBut({"size"}, a, n)
    BY <2>1, <2>2, <2>4, SizeSet
  <2>7. SameBut({"size", "laid"}, s, n)
    BY <2>4, <2>6 DEF SameBut
  <2>8. /\ ResumableIn(n) /\ n.missed = s.missed /\ n.pending = s.pending /\ n.sub = s.sub
        /\ n.page = s.page /\ n.window = s.window
    <3>1. ResumableIn(n)
      BY <1>1, <2>6, <2>7, SameTalk DEF Talk
    <3>2. n.missed = s.missed /\ n.pending = s.pending /\ n.sub = s.sub
      BY <2>7 DEF SameBut, AllFields, PageFields
    <3>3. n.page = s.page /\ n.window = s.window
      BY <2>7 DEF SameBut, AllFields, PageFields
    <3> QED
      BY <3>1, <3>2, <3>3
  <2>9. n.laid = TRUE
    BY <2>5, <2>6 DEF SameBut, AllFields, PageFields
  <2>10. Together(n)
    BY <1>5, <2>2, <2>6, <2>8, <2>9 DEF Together
  <2>11. Filled(n)
    BY <1>5, <2>2, <2>6, <2>8 DEF Filled, Visible
  <2>12. Announced(n)
    BY <1>1, <2>8 DEF Announced
  <2>13. Kept(n)
    BY <2>6, <2>8, <2>10, <2>12 DEF Kept
  <2> QED
    BY <2>7, <2>9, <2>11, <2>13
<1> QED BY <1>3, <1>4, <1>5

\* A page that is opened is open with its sub-page; the proxy has one from then on.
LEMMA PageOpened ==
    ASSUME NEW s, Kept(s), s.page \in TopPages, s.open = {}, OwnerIn(s, {Password}),
           NEW n, n = OpenPage(s, s.page)
    PROVE  /\ Kept(n) /\ n.open = Visible(n) /\ OwnerIn(n, {Password})
           /\ SameBut(Talk \cup {"open", "sub", "size", "pending", "missed"}, s, n)
           /\ s.page = Proxy => n.sub # NoPage
<1> DEFINE p == s.page
           u == s.open \cup {p} \cup IF p = Proxy /\ s.sub # NoPage THEN {s.sub} ELSE {}
           a == SetOpen(s, u)
<1>1. /\ s \in Screens /\ ResumableIn(s) /\ Announced(s) /\ Together(s) /\ s.sub \in SubPages \cup {NoPage}
      /\ p \in ScreenPages /\ p # NoPage
  BY PagesApart DEF Kept, Screens
<1>2. u \in SUBSET ScreenPages /\ u = {p} \cup IF p = Proxy /\ s.sub # NoPage THEN {s.sub} ELSE {}
  BY <1>1, PagesApart
<1>3. n = IF p = Proxy /\ s.sub = NoPage THEN SetCurrentPage(a, FirstSubPage) ELSE a
  BY DEF OpenPage, SetOpen
<1>4. a = SetOpen(s, u)
  OBVIOUS
<1> HIDE DEF u, a
<1>5. a \in Screens /\ a.open = u /\ SameBut({"open"}, s, a)
  BY <1>1, <1>2, <1>4, OpenSet
<1>6. /\ ResumableIn(a) /\ OwnerIn(a, {Password}) /\ Together(a)
      /\ a.page = p /\ a.sub = s.sub /\ a.missed = s.missed /\ a.pending = s.pending
  <2>1. ResumableIn(a) /\ OwnerIn(a, {Password})
    BY <1>1, <1>5, SameTalk DEF Talk
  <2>2. Together(a)
    BY <1>1, <1>5, SameSizes
  <2> QED
    BY <1>5, <2>1, <2>2 DEF SameBut, AllFields, PageFields
<1>7. Kept(a)
  <2>1. Announced(a)
    BY <1>1, <1>6 DEF Announced
  <2> QED
    BY <1>5, <1>6, <2>1 DEF Kept
<1>8. CASE p = Proxy /\ s.sub = NoPage
  <2>1. n = SetCurrentPage(a, FirstSubPage) /\ a.open = {Proxy}
    BY <1>2, <1>3, <1>5, <1>8
  <2>2. FirstSubPage # a.sub /\ FirstSubPage \in SubPages /\ FirstSubPage # NoPage
    BY <1>6, <1>8, PagesApart
  <2>3. /\ Kept(n) /\ n.open = {Proxy, FirstSubPage} /\ n.sub = FirstSubPage
        /\ SameBut(Talk \cup {"open", "sub", "size", "pending", "missed"}, a, n)
        /\ OwnerIn(n, {Password} \ {a.sub})
    <3>1. ProxyIsOpen(a)
      BY <2>1 DEF ProxyIsOpen
    <3>2. /\ Kept(n) /\ n.open = {Proxy, FirstSubPage} /\ n.sub = FirstSubPage
          /\ SameBut(Talk \cup {"open", "sub", "size", "pending", "missed"}, a, n)
          /\ \A P : OwnerIn(a, P) => OwnerIn(n, P \ {a.sub})
      BY <1>7, <2>1, <2>2, <3>1, SubPageShown
    <3> QED
      BY <1>6, <3>2
  <2>4. SameBut(Talk \cup {"open", "sub", "size", "pending", "missed"}, s, n)
    BY <1>5, <2>3 DEF SameBut
  <2>5. n.page = Proxy
    BY <1>8, <2>4 DEF SameBut, AllFields, PageFields, Talk
  <2>6. n.open = Visible(n)
    BY <1>1, <1>8, <2>2, <2>3, <2>5 DEF Visible
  <2> QED
    BY <2>2, <2>3, <2>4, <2>6 DEF OwnerIn
<1>9. CASE ~(p = Proxy /\ s.sub = NoPage)
  <2>1. n = a
    BY <1>3, <1>9
  <2>2. n.open = Visible(n)
    BY <1>1, <1>2, <1>5, <1>6, <1>9, <2>1 DEF Visible
  <2>3. SameBut(Talk \cup {"open", "sub", "size", "pending", "missed"}, s, n)
    BY <1>5, <2>1 DEF SameBut
  <2> QED
    BY <1>6, <1>7, <1>9, <2>1, <2>2, <2>3
<1> QED BY <1>8, <1>9

\* The page that has been opened is resized and updated: then the screen is as it should be.
LEMMA PageShown ==
    ASSUME NEW s, Kept(s), s.page \in TopPages, s.open = {}, OwnerIn(s, {Password}),
           NEW n, n = UpdatePage(ResizePage(OpenPage(s, s.page), s.page), s.page)
    PROVE  ScreenInvOf(n) /\ n.page = s.page /\ n.twice = s.twice
<1> DEFINE p == s.page
           a == OpenPage(s, p)
           b == ResizePage(a, p)
<1>0. a = OpenPage(s, p) /\ b = ResizePage(a, p) /\ n = UpdatePage(b, p)
  OBVIOUS
<1> HIDE DEF a, b
<1>1. /\ Kept(a) /\ a.open = Visible(a) /\ OwnerIn(a, {Password})
      /\ SameBut(Talk \cup {"open", "sub", "size", "pending", "missed"}, s, a)
      /\ p = Proxy => a.sub # NoPage
  BY <1>0, PageOpened
<1>2. a.page = p
  BY <1>1 DEF SameBut, AllFields, PageFields, Talk
<1>3. /\ Kept(b) /\ SameBut({"size", "laid"}, a, b) /\ Filled(b)
      /\ p = Proxy => b.laid
  BY <1>0, <1>1, <1>2, PageResized
<1>4. /\ Kept(n) /\ SameBut({"pending", "missed", "updated"}, b, n)
      /\ p \notin n.missed
      /\ p = Proxy => n.updated /\ b.sub \notin n.missed
  BY <1>0, <1>3, PageUpdated
<1>5. /\ n.page = p /\ n.sub = a.sub /\ b.sub = a.sub /\ n.open = a.open /\ n.size = b.size /\ n.window = b.window
      /\ b.page = p
  BY <1>2, <1>3, <1>4 DEF SameBut, AllFields, PageFields
<1>6. n.laid = b.laid
  BY <1>4 DEF SameBut, AllFields, PageFields
<1>7. n.twice = s.twice
  BY <1>1, <1>3, <1>4 DEF SameBut, AllFields, PageFields, Talk
<1>8. Visible(n) = Visible(a) /\ Visible(n) = Visible(b)
  BY <1>2, <1>5 DEF Visible
<1>9. OwnerIn(n, {Password})
  <2>1. a \in Screens /\ b \in Screens /\ n \in Screens
    BY <1>1, <1>3, <1>4 DEF Kept
  <2>2. OwnerIn(b, {Password})
    BY <1>1, <1>3, <2>1, SameTalk DEF Talk
  <2> QED
    BY <1>4, <2>1, <2>2, SameTalk DEF Talk
<1>10. n.missed \cap Visible(n) = {}
  BY <1>4, <1>5 DEF Visible
<1>11. Filled(n)
  BY <1>3, <1>5, <1>8 DEF Filled
<1>12. Ready(n)
  BY <1>1, <1>3, <1>4, <1>5, <1>6 DEF Ready
<1>13. OwnerIn(n, Visible(n) \cup {Password})
  BY <1>9 DEF OwnerIn
<1> QED
  BY <1>1, <1>4, <1>5, <1>7, <1>8, <1>10, <1>11, <1>12, <1>13 DEF ScreenInvOf

-----------------------------------------------------------------------------
(* Steps *)

\* What only the dialog and the coroutines see leaves the pages as they are.
LEMMA TalkStep ==
    ASSUME NEW s, ScreenInvOf(s), NEW t \in Screens, SamePages(s, t), ResumableIn(t),
           OwnerIn(t, Visible(s) \cup {Password})
    PROVE  ScreenInvOf(t) /\ t.page = s.page /\ t.twice = s.twice /\ Visible(t) = Visible(s)
<1>1. Kept(s) /\ s \in Screens
  BY DEF ScreenInvOf, Kept
<1>2. Kept(t) /\ Visible(t) = Visible(s)
  BY <1>1, TalkChanged
<1>3. /\ t.page = s.page /\ t.sub = s.sub /\ t.open = s.open /\ t.missed = s.missed /\ t.size = s.size
      /\ t.window = s.window
  BY DEF SamePages, PageFields
<1>4. t.laid = s.laid
  BY DEF SamePages, PageFields
<1>5. t.updated = s.updated
  BY DEF SamePages, PageFields
<1>6. t.twice = s.twice
  BY DEF SamePages, PageFields
<1>7. Filled(t) /\ t.open = Visible(t) /\ t.missed \cap Visible(t) = {}
  BY <1>2, <1>3 DEF ScreenInvOf, Filled
<1>8. Ready(t)
  BY <1>3, <1>4, <1>5 DEF ScreenInvOf, Ready
<1> QED
  BY <1>2, <1>3, <1>6, <1>7, <1>8 DEF ScreenInvOf

\* Cancelling a coroutine, and with it its dialog, keeps the screen as it should be, ...
LEMMA CancelStep ==
    ASSUME NEW s, ScreenInvOf(s), NEW o \in Owners, NEW n, n = CoCancel(s, o)
    PROVE  ScreenInvOf(n) /\ n.page = s.page /\ n.twice = s.twice /\ n.task[o] = NoFrame
<1>1. s \in Screens /\ ResumableIn(s) /\ OwnerIn(s, Visible(s) \cup {Password})
  BY DEF ScreenInvOf, Kept
<1>2. /\ n \in Screens /\ SamePages(s, n) /\ ResumableIn(n) /\ n.task[o] = NoFrame
      /\ Quiet(n) \/ n = s
  BY <1>1, Cancelled
<1>3. OwnerIn(n, Visible(s) \cup {Password})
  BY <1>1, <1>2 DEF Quiet, OwnerIn
<1> QED
  BY <1>2, <1>3, TalkStep

\* ... as does cancelling a dialog, ...
LEMMA CancelDialogStep ==
    ASSUME NEW s, ScreenInvOf(s), NEW n, n = CancelModalDialog(s)
    PROVE  ScreenInvOf(n) /\ n.page = s.page /\ n.twice = s.twice /\ Quiet(n)
<1>1. s \in Screens /\ ResumableIn(s)
  BY DEF ScreenInvOf, Kept
<1>2. n \in Screens /\ SamePages(s, n) /\ ResumableIn(n) /\ Quiet(n)
  BY <1>1, ModalCancelled
<1>3. OwnerIn(n, Visible(s) \cup {Password})
  BY <1>2 DEF Quiet, OwnerIn
<1> QED
  BY <1>2, <1>3, TalkStep

\* ... switching to a page, whatever is closed, constructed and opened for it, ...
LEMMA SwitchStep ==
    ASSUME NEW s, ScreenInvOf(s), s.page # NoPage, NEW p \in TopPages, NEW n, n = Switch(s, p)
    PROVE  ScreenInvOf(n) /\ n.twice = s.twice
<1>1. /\ s \in Screens /\ Kept(s) /\ s.open = Visible(s) /\ OwnerIn(s, Visible(s) \cup {Password})
      /\ s.page \in TopPages
  BY DEF ScreenInvOf, Kept, Screens
<1>2. CASE p = s.page
  BY <1>2 DEF Switch
<1>3. CASE p # s.page
  <2> DEFINE a == MakePage(s, p)
             b == SetPrev(a, s.page)
             c == ClosePage(b, s.page)
             e == SetPage(c, p)
  <2>1. n = UpdatePage(ResizePage(OpenPage(e, p), p), p)
    BY <1>3 DEF Switch, SetPrev, SetPage
  <2>2. a = MakePage(s, p) /\ b = SetPrev(a, s.page) /\ c = ClosePage(b, s.page) /\ e = SetPage(c, p)
    OBVIOUS
  <2> HIDE DEF a, b, c, e
  <2>3. Kept(a) /\ SameBut({"made", "pending", "missed"}, s, a)
    BY <1>1, <2>2, PageMade
  <2>4. b \in Screens /\ SameBut({"prev"}, a, b)
    BY <1>1, <2>2, <2>3, PrevSet DEF Kept
  <2>5. a \in Screens /\ ResumableIn(a) /\ Announced(a) /\ Together(a)
    BY <2>3 DEF Kept
  <2>6. Kept(b)
    <3>1. ResumableIn(b)
      BY <2>4, <2>5, SameTalk DEF Talk
    <3>2. Together(b)
      BY <2>4, <2>5, SameSizes
    <3>3. b.missed = a.missed /\ b.pending = a.pending
      BY <2>4 DEF SameBut, AllFields, PageFields
    <3> QED
      BY <2>4, <2>5, <3>1, <3>2, <3>3 DEF Kept, Announced
  <2>7. SameBut({"made", "pending", "missed", "prev"}, s, b)
    BY <2>3, <2>4 DEF SameBut
  <2>8. b.page = s.page /\ b.sub = s.sub /\ b.open = s.open
    BY <2>7 DEF SameBut, AllFields, PageFields
  <2>9. b.twice = s.twice
    BY <2>7 DEF SameBut, AllFields, PageFields
  <2>10. Visible(b) = Visible(s)
    BY <2>8 DEF Visible
  <2>11. OwnerIn(b, Visible(b) \cup {Password})
    <3>1. OwnerIn(b, Visible(s) \cup {Password})
      BY <1>1, <2>4, <2>7, SameTalk DEF Talk
    <3> QED
      BY <2>10, <3>1
  <2>12. c = ClosePage(b, b.page) /\ b.page \in TopPages /\ b.open = Visible(b)
    BY <1>1, <2>2, <2>8, <2>10
  <2>13. Kept(c) /\ c.open = {} /\ SameBut(Talk \cup {"open"}, b, c) /\ OwnerIn(c, {Password})
    BY <2>6, <2>11, <2>12, PageClosed
  <2>14. c \in Screens /\ ResumableIn(c) /\ Announced(c) /\ Together(c)
    BY <2>13 DEF Kept
  <2>15. e \in Screens /\ e.page = p /\ SameBut({"page"}, c, e)
    BY <2>2, <2>14, PageSet
  <2>16. e.open = {} /\ e.missed = c.missed /\ e.pending = c.pending
    BY <2>13, <2>15 DEF SameBut, AllFields, PageFields
  <2>17. e.twice = s.twice
    BY <2>9, <2>13, <2>15 DEF SameBut, AllFields, PageFields, Talk
  <2>18. ResumableIn(e) /\ OwnerIn(e, {Password})
    BY <2>13, <2>14, <2>15, SameTalk DEF Talk
  <2>19. Together(e)
    BY <2>14, <2>15, SameSizes
  <2>20. Kept(e)
    BY <2>14, <2>15, <2>16, <2>18, <2>19 DEF Kept, Announced
  <2>21. n = UpdatePage(ResizePage(OpenPage(e, e.page), e.page), e.page) /\ e.page \in TopPages
    BY <2>1, <2>15
  <2> QED
    BY <2>16, <2>17, <2>18, <2>20, <2>21, PageShown
<1> QED BY <1>2, <1>3

\* ... and showing another sub-page.
LEMMA SubPageStep ==
    ASSUME NEW s, ScreenInvOf(s), s.page = Proxy, NEW q \in SubPages, q # s.sub,
           NEW n, n = SetCurrentPage(s, q)
    PROVE  ScreenInvOf(n) /\ n.twice = s.twice
<1>1. /\ s \in Screens /\ Kept(s) /\ s.open = Visible(s) /\ OwnerIn(s, Visible(s) \cup {Password})
      /\ Filled(s) /\ s.missed \cap Visible(s) = {} /\ Proxy # NoPage /\ s.sub # NoPage
  BY PagesApart DEF ScreenInvOf, Kept, Ready
<1>2. s.laid
  BY DEF ScreenInvOf, Ready
<1>3. s.updated
  BY DEF ScreenInvOf, Ready
<1>4. Visible(s) = {Proxy, s.sub}
  BY <1>1 DEF Visible
<1>5. ProxyIsOpen(s)
  BY <1>1, <1>4 DEF ProxyIsOpen
<1>6. /\ Kept(n) /\ n.open = {Proxy, q} /\ n.sub = q
      /\ SameBut(Talk \cup {"open", "sub", "size", "pending", "missed"}, s, n)
      /\ \A P : OwnerIn(s, P) => OwnerIn(n, P \ {s.sub})
      /\ n.missed \subseteq s.missed
      /\ s.laid /\ s.updated => q \notin n.missed
      /\ \A p \in TopPages : n.size[p] = s.size[p]
      /\ s.laid => n.size[q] = s.size[Proxy]
  BY <1>1, <1>5, SubPageShown, SMTT(30)
<1>7. n.page = Proxy /\ n.window = s.window
  BY <1>6 DEF SameBut, AllFields, PageFields, Talk
<1>8. n.laid = s.laid
  BY <1>6 DEF SameBut, AllFields, PageFields, Talk
<1>9. n.updated = s.updated
  BY <1>6 DEF SameBut, AllFields, PageFields, Talk
<1>10. n.twice = s.twice
  BY <1>6 DEF SameBut, AllFields, PageFields, Talk
<1>11. Visible(n) = {Proxy, q} /\ q # NoPage
  BY <1>1, <1>6, <1>7, PagesApart DEF Visible
<1>12. q \notin n.missed /\ n.size[q] = s.size[Proxy]
  BY <1>2, <1>3, <1>6
<1>13. n.missed \cap Visible(n) = {}
  BY <1>1, <1>4, <1>6, <1>11, <1>12
<1>14. Filled(n)
  BY <1>1, <1>4, <1>6, <1>7, <1>11, <1>12, PagesApart DEF Filled
<1>15. Ready(n)
  BY <1>2, <1>3, <1>6, <1>8, <1>9, <1>11 DEF Ready
<1>16. OwnerIn(n, Visible(n) \cup {Password})
  <2>1. OwnerIn(n, (Visible(s) \cup {Password}) \ {s.sub})
    BY <1>1, <1>6
  <2> QED
    BY <1>4, <1>11, <2>1 DEF OwnerIn
<1> QED
  BY <1>6, <1>10, <1>11, <1>13, <1>14, <1>15, <1>16 DEF ScreenInvOf

\* What every step of the screen manager keeps.
ScreenInv == ScreenInvOf(screen) /\ screen.twice = FALSE

\* The inductive invariant contains what is said of the screen.
LEMMA ScreenInvIsSound == ScreenInv => ScreenSound /\ DestroyedOnce
<1> SUFFICES ASSUME ScreenInv PROVE ScreenSound /\ DestroyedOnce
  OBVIOUS
<1>1. ScreenTypeOK /\ VisibleIsOpen /\ NoEventMissed
  BY DEF ScreenInv, ScreenInvOf, Kept, Filled, Announced, ScreenTypeOK, VisibleIsOpen, NoEventMissed
<1>2. Resumable
  BY DEF ScreenInv, ScreenInvOf, Kept, ResumableIn, Resumable
<1>3. DialogOfVisiblePage
  BY DEF ScreenInv, ScreenInvOf, OwnerIn, DialogOfVisiblePage
<1>4. DestroyedOnce
  BY DEF ScreenInv, DestroyedOnce
<1> QED
  BY <1>1, <1>2, <1>3, <1>4 DEF ScreenSound

\* The first page is shown before the event loop starts.
LEMMA ScreenInvInit == ScreenInit => ScreenInv
<1> SUFFICES ASSUME ScreenInit PROVE ScreenInv
  OBVIOUS
<1> DEFINE blank(w) == [page |-> FirstPage, prev |-> FirstPage, sub |-> NoPage, made |-> {},
                    open |-> {}, pending |-> {}, missed |-> {}, window |-> w,
                    size |-> [p \in ScreenPages |-> 0],
                    laid |-> FALSE, updated |-> FALSE, modal |-> NoFrame,
                    task |-> [o \in Owners |-> NoFrame],
                    frame |-> [f \in Frames |-> FreeFrame], twice |-> FALSE]
<1>1. PICK w \in Sizes : screen = UpdatePage(ResizePage(OpenPage(MakePage(blank(w), FirstPage), FirstPage),
                                         FirstPage), FirstPage)
  BY DEF ScreenInit
<1> DEFINE b == blank(w)
           a == MakePage(b, FirstPage)
<1>2. b \in Screens
  BY PagesApart DEF Screens, FrameStates
<1>3. /\ b.page = FirstPage /\ b.open = {} /\ b.modal = NoFrame /\ b.sub = NoPage
      /\ b.missed = {} /\ b.size = [p \in ScreenPages |-> 0]
      /\ b.task = [o \in Owners |-> NoFrame] /\ b.frame = [f \in Frames |-> FreeFrame]
  OBVIOUS
<1>4. b.twice = FALSE
  OBVIOUS
<1>5. b.laid = FALSE
  OBVIOUS
<1>6. a = MakePage(b, FirstPage) /\ screen = UpdatePage(ResizePage(OpenPage(a, FirstPage), FirstPage), FirstPage)
  BY <1>1
<1> HIDE DEF a, b, blank
<1>7. Kept(b)
  <2>1. Quiet(b)
    BY <1>3 DEF Quiet
  <2>2. b.size[Proxy] = 0
    BY <1>3, PagesApart
  <2> QED
    BY <1>2, <1>3, <1>5, <2>1, <2>2, QuietIsResumable DEF Kept, Announced, Together
<1>8. Kept(a) /\ SameBut({"made", "pending", "missed"}, b, a)
  BY <1>6, <1>7, PageMade, PagesApart
<1>9. a.page = FirstPage /\ a.open = {} /\ a.modal = NoFrame
  BY <1>3, <1>8 DEF SameBut, AllFields, PageFields
<1>10. a.twice = FALSE
  BY <1>4, <1>8 DEF SameBut, AllFields, PageFields
<1>11. OwnerIn(a, {Password})
  BY <1>9 DEF OwnerIn
<1>12. screen = UpdatePage(ResizePage(OpenPage(a, a.page), a.page), a.page) /\ a.page \in TopPages
  BY <1>6, <1>9, PagesApart
<1>13. ScreenInvOf(screen) /\ screen.twice = a.twice
  BY <1>8, <1>9, <1>11, <1>12, PageShown
<1> QED
  BY <1>10, <1>13 DEF ScreenInv

\* What is said of a state that is still up to date once MPD has announced something
LEMMA UpdateStep ==
    ASSUME ScreenInv, Running, UpdateScreen
    PROVE  ScreenInv'
<1>1. PICK news \in BOOLEAN, connected \in BOOLEAN :
         LET s == IF connected THEN screen ELSE CoCancel(screen, Password)
             all == s.made \cup IF Proxy \in s.made THEN SubPages ELSE {}
             told == IF news THEN [s EXCEPT !.pending = @ \cup s.made, !.missed = @ \cup all]
                     ELSE s
         IN  screen' = UpdatePage(told, s.page)
  BY DEF UpdateScreen
<1> DEFINE s == IF connected THEN screen ELSE CoCancel(screen, Password)
           all == s.made \cup IF Proxy \in s.made THEN SubPages ELSE {}
           v == s.pending \cup s.made
           a == SetPending(s, v)
           w == s.missed \cup all
           b == SetMissed(a, w)
           told == IF news THEN b ELSE s
<1>2. screen' = UpdatePage(told, s.page)
  <2>1. a.missed = s.missed
    <3>1. s \in Screens
      BY CancelStep, PagesApart DEF ScreenInv, ScreenInvOf, Kept
    <3> QED
      BY <3>1 DEF SetPending, Screens
  <2>2. [s EXCEPT !.pending = @ \cup s.made, !.missed = @ \cup all] = b
    BY <2>1 DEF SetPending, SetMissed
  <2> QED
    BY <1>1, <2>2
<1>3. ScreenInvOf(s) /\ s.page = screen.page /\ s.twice = screen.twice
  BY CancelStep, PagesApart DEF ScreenInv
<1>4. /\ all = s.made \cup (IF Proxy \in s.made THEN SubPages ELSE {}) /\ v = s.pending \cup s.made
      /\ a = SetPending(s, v) /\ w = s.missed \cup all /\ b = SetMissed(a, w)
      /\ told = IF news THEN b ELSE s
  OBVIOUS
<1> HIDE DEF s, all, v, a, w, b, told
<1>5. /\ s \in Screens /\ ResumableIn(s) /\ Announced(s) /\ Together(s) /\ Kept(s) /\ s.page \in TopPages
      /\ s.open = Visible(s) /\ Filled(s) /\ OwnerIn(s, Visible(s) \cup {Password}) /\ Ready(s)
  BY <1>3 DEF ScreenInvOf, Kept, Screens, Running
<1>6. v \in SUBSET ScreenPages /\ w \in SUBSET ScreenPages
  BY <1>4, <1>5, PagesApart DEF Screens
<1>7. a \in Screens /\ a.pending = v /\ SameBut({"pending"}, s, a)
  BY <1>4, <1>5, <1>6, PendingSet
<1>8. b \in Screens /\ b.missed = w /\ SameBut({"missed"}, a, b)
  BY <1>4, <1>6, <1>7, MissedSet
<1>9. SameBut({"pending", "missed"}, s, b) /\ b.pending = v
  BY <1>7, <1>8 DEF SameBut, AllFields, PageFields
<1>10. Kept(b)
  <2>1. ResumableIn(b)
    BY <1>5, <1>8, <1>9, SameTalk DEF Talk
  <2>2. Together(b)
    BY <1>5, <1>8, <1>9, SameSizes
  <2>3. Announced(b)
    BY <1>4, <1>5, <1>8, <1>9 DEF Announced
  <2> QED
    BY <1>8, <2>1, <2>2, <2>3 DEF Kept
<1>11. Kept(told) /\ SameBut({"pending", "missed"}, s, told)
  BY <1>4, <1>5, <1>9, <1>10 DEF SameBut
<1>12. /\ Kept(screen') /\ SameBut({"pending", "missed", "updated"}, told, screen')
       /\ s.page \notin screen'.missed
       /\ s.page = Proxy => screen'.updated /\ told.sub \notin screen'.missed
  BY <1>2, <1>5, <1>11, PageUpdated
<1>13. SameBut({"pending", "missed", "updated"}, s, screen') /\ told.sub = s.sub
  BY <1>11, <1>12 DEF SameBut, AllFields, PageFields
<1>14. /\ screen'.page = s.page /\ screen'.sub = s.sub /\ screen'.open = s.open /\ screen'.size = s.size
       /\ screen'.window = s.window
  BY <1>13 DEF SameBut, AllFields, PageFields
<1>15. screen'.laid = s.laid
  BY <1>13 DEF SameBut, AllFields, PageFields
<1>16. screen'.twice = s.twice
  BY <1>13 DEF SameBut, AllFields, PageFields
<1>17. Visible(screen') = Visible(s)
  BY <1>14 DEF Visible
<1>18. OwnerIn(screen', Visible(screen') \cup {Password})
  <2>1. screen' \in Screens
    BY <1>12 DEF Kept
  <2>2. OwnerIn(screen', Visible(s) \cup {Password})
    BY <1>5, <1>13, <2>1, SameTalk DEF Talk
  <2> QED
    BY <1>17, <2>2
<1>19. screen'.missed \cap Visible(screen') = {}
  BY <1>12, <1>13, <1>14 DEF Visible
<1>20. Filled(screen')
  BY <1>5, <1>14, <1>17 DEF Filled
<1>21. Ready(screen')
  BY <1>5, <1>12, <1>14, <1>15 DEF Ready
<1>22. screen'.twice = FALSE
  BY <1>3, <1>16 DEF ScreenInv
<1>23. ScreenInvOf(screen')
  BY <1>5, <1>12, <1>14, <1>17, <1>18, <1>19, <1>20, <1>21 DEF ScreenInvOf
<1> QED
  BY <1>22, <1>23 DEF ScreenInv

\* A coroutine of a page that is shown, or of the password dialog
LEMMA StartStep ==
    ASSUME NEW s, ScreenInvOf(s), NEW o \in Visible(s) \cup {Password}, s.task[o] = NoFrame, NEW d \in Dialogs,
           NEW n, n = StartTask(s, o, d)
    PROVE  ScreenInvOf(n) /\ n.twice = s.twice
<1>1. s \in Screens /\ ResumableIn(s) /\ o \in Owners
  BY PagesApart DEF ScreenInvOf, Kept, Visible, Screens
<1>2. /\ n \in Screens /\ SamePages(s, n) /\ ResumableIn(n)
      /\ n.modal # NoFrame /\ n.frame[n.modal].owner = o
  BY <1>1, Started
<1>3. OwnerIn(n, Visible(s) \cup {Password})
  BY <1>2 DEF OwnerIn
<1> QED
  BY <1>2, <1>3, TalkStep

\* The password dialog
LEMMA AuthStep == ASSUME ScreenInv, OnMpdAuth PROVE ScreenInv'
<1>1. ScreenInvOf(screen) /\ screen.task[Password] = NoFrame /\ screen' = StartTask(screen, Password, "text")
  BY DEF ScreenInv, OnMpdAuth
<1>2. "text" \in Dialogs
  BY DEF Dialogs
<1>3. ScreenInvOf(screen') /\ screen'.twice = screen.twice
  BY <1>1, <1>2, StartStep
<1> QED
  BY <1>3 DEF ScreenInv

\* An answer ends a coroutine, or its next dialog takes the place of the one that was answered.
LEMMA AnswerStep == ASSUME ScreenInv, OnAnswer PROVE ScreenInv'
<1> DEFINE f == screen.modal
           hidden == [screen EXCEPT !.modal = NoFrame]
<1>1. /\ ScreenInvOf(screen) /\ screen \in Screens /\ ResumableIn(screen) /\ screen.modal # NoFrame
      /\ OwnerIn(screen, Visible(screen) \cup {Password})
  BY DEF ScreenInv, ScreenInvOf, Kept, OnAnswer
<1>2. \/ screen' = Finish(hidden, f)
      \/ screen' = ShowModalDialog([hidden EXCEPT !.frame[f].dialog = "yesno"], f)
  BY DEF OnAnswer
<1>3. CASE screen' = Finish(hidden, f)
  <2>1. screen' = CancelModalDialog(screen)
    BY <1>1, <1>3 DEF CancelModalDialog
  <2>2. ScreenInvOf(screen') /\ screen'.twice = screen.twice
    BY <1>1, <2>1, CancelDialogStep
  <2> QED
    BY <2>2 DEF ScreenInv
<1>4. CASE screen' = ShowModalDialog([hidden EXCEPT !.frame[f].dialog = "yesno"], f)
  <2>1. "yesno" \in Dialogs
    BY DEF Dialogs
  <2>2. /\ screen' \in Screens /\ SamePages(screen, screen') /\ ResumableIn(screen')
        /\ screen'.modal = screen.modal /\ screen'.frame[screen'.modal].owner = screen.frame[screen.modal].owner
    BY <1>1, <1>4, <2>1, AskedAgain, ZenonT(60)
  <2>3. OwnerIn(screen', Visible(screen) \cup {Password})
    BY <1>1, <2>2 DEF OwnerIn
  <2>4. ScreenInvOf(screen') /\ screen'.twice = screen.twice
    BY <1>1, <2>2, <2>3, TalkStep
  <2> QED
    BY <2>4 DEF ScreenInv
<1> QED
  BY <1>2, <1>3, <1>4

\* The dialog that a key has cancelled, or not
LEMMA FocusStep ==
    ASSUME ScreenInv, Running, NEW s \in Focus
    PROVE  /\ ScreenInvOf(s) /\ s.page = screen.page /\ s.page \in TopPages
           /\ s.twice = FALSE
<1>1. s = screen \/ s = CancelModalDialog(screen)
  BY DEF Focus
<1>2. ScreenInvOf(screen) /\ screen.page \in TopPages
  BY DEF ScreenInv, ScreenInvOf, Kept, Screens, Running
<1>3. ScreenInvOf(s) /\ s.page = screen.page /\ s.twice = screen.twice
  BY <1>1, <1>2, CancelDialogStep
<1> QED
  BY <1>2, <1>3 DEF ScreenInv

\* A careful page has cancelled its coroutine before it looks at the command.
LEMMA CommandStep ==
    ASSUME ScreenInv, Running, NEW s \in Focus, NEW t, t = GetCommand(s)
    PROVE  /\ ScreenInvOf(t) /\ t.page \in TopPages /\ t.page # NoPage
           /\ t.twice = FALSE
<1>1. /\ ScreenInvOf(s) /\ s.page = screen.page /\ s.page \in TopPages /\ s.page \in Owners /\ s.page # NoPage
      /\ s.twice = FALSE
  BY FocusStep, PagesApart
<1>2. t = s \/ t = CoCancel(s, s.page)
  BY DEF GetCommand
<1>3. ScreenInvOf(t) /\ t.page = s.page /\ t.twice = s.twice
  BY <1>1, <1>2, CancelStep
<1> QED
  BY <1>1, <1>3

\* Commands that change the page
LEMMA NavigateStep == ASSUME ScreenInv, NavigateCommand PROVE ScreenInv'
<1>0. Running
  BY DEF NavigateCommand
<1>1. PICK s \in Focus : screen' \in Navigate(GetCommand(s))
  BY DEF NavigateCommand
<1> DEFINE t == GetCommand(s)
<1>2. /\ ScreenInvOf(t) /\ t.page \in TopPages /\ t.page # NoPage
      /\ t.twice = FALSE
  BY <1>0, CommandStep
<1> HIDE DEF t
<1>3. t.prev \in TopPages
  BY <1>2 DEF ScreenInvOf, Kept, Screens
<1>4. \/ \E p \in TopPages : screen' = Switch(t, p)
      \/ t.page = Proxy /\ \E q \in SubPages \ {t.sub} : screen' = SetCurrentPage(t, q)
  BY <1>1, <1>3 DEF Navigate, t
<1>5. ScreenInvOf(screen') /\ screen'.twice = t.twice
  BY <1>2, <1>4, SwitchStep, SubPageStep
<1> QED
  BY <1>2, <1>5 DEF ScreenInv

\* A command that starts a coroutine on a page that has none cancels no handle twice.
LEMMA StartCommandStep == ASSUME Interrupting = FALSE, ScreenInv, StartCommand PROVE ScreenInv'
<1>1. PICK s \in Focus, d \in Dialogs \cup {"none"} :
         LET t == GetCommand(s)
             o == FocusPage(t)
         IN  /\ Interrupting \/ d = "none" \/ t.task[o] = NoFrame
             /\ screen' = IF d = "none" THEN CoStartSilently(t, o) ELSE CoStart(t, o, d)
  BY DEF StartCommand
<1> DEFINE t == GetCommand(s)
           o == FocusPage(t)
<1>2. Running
  BY DEF StartCommand
<1>3. /\ ScreenInvOf(t) /\ t.page \in TopPages /\ t.page # NoPage
      /\ t.twice = FALSE
  BY <1>2, CommandStep
<1>4. /\ d = "none" \/ t.task[o] = NoFrame
      /\ screen' = IF d = "none" THEN CoStartSilently(t, o) ELSE CoStart(t, o, d)
  BY <1>1
<1> HIDE DEF t
<1>5. o \in Visible(t) /\ o \in Owners
  BY <1>3, PagesApart DEF FocusPage, Visible, ScreenInvOf, Kept, Screens
<1> HIDE DEF o
<1>6. CASE d = "none"
  <2>1. screen' = CoCancel(t, o)
    BY <1>4, <1>6 DEF CoStartSilently
  <2>2. ScreenInvOf(screen') /\ screen'.twice = t.twice
    BY <1>3, <1>5, <2>1, CancelStep
  <2> QED
    BY <1>3, <2>2 DEF ScreenInv
<1>7. CASE d # "none"
  <2>1. t.task[o] = NoFrame /\ d \in Dialogs /\ screen' = CoStart(t, o, d)
    BY <1>4, <1>7
  <2>2. screen' = StartTask(t, o, d)
    BY <2>1 DEF CoStart
  <2>3. ScreenInvOf(screen') /\ screen'.twice = t.twice
    BY <1>3, <1>5, <2>1, <2>2, StartStep
  <2> QED
    BY <1>3, <2>3 DEF ScreenInv
<1> QED
  BY <1>6, <1>7

\* The terminal gets another size.
LEMMA ResizeStep == ASSUME ScreenInv, OnResize PROVE ScreenInv'
<1>1. PICK w \in Sizes : screen' = ResizePage([screen EXCEPT !.window = w], screen.page)
  BY DEF OnResize
<1> DEFINE s == screen
           a == SetWindow(s, w)
<1>2. /\ s \in Screens /\ ResumableIn(s) /\ Announced(s) /\ Together(s) /\ s.page \in TopPages
      /\ s.open = Visible(s) /\ OwnerIn(s, Visible(s) \cup {Password}) /\ s.missed \cap Visible(s) = {}
      /\ Ready(s)
  BY DEF ScreenInv, ScreenInvOf, Kept, Screens, OnResize, Running
<1>3. screen' = ResizePage(a, s.page) /\ a = SetWindow(s, w)
  BY <1>1 DEF SetWindow
<1> HIDE DEF a
<1>4. a \in Screens /\ SameBut({"window"}, s, a)
  BY <1>2, <1>3, WindowSet
<1>5. a.page = s.page /\ a.sub = s.sub /\ a.missed = s.missed /\ a.pending = s.pending
  BY <1>4 DEF SameBut, AllFields, PageFields
<1>6. Kept(a)
  <2>1. ResumableIn(a)
    BY <1>2, <1>4, SameTalk DEF Talk
  <2>2. Together(a)
    BY <1>2, <1>4, SameSizes
  <2>3. Announced(a)
    BY <1>2, <1>5 DEF Announced
  <2> QED
    BY <1>4, <2>1, <2>2, <2>3 DEF Kept
<1>7. screen' = ResizePage(a, a.page) /\ a.page \in TopPages /\ (a.page = Proxy => a.sub # NoPage)
  BY <1>2, <1>3, <1>5 DEF Ready
<1>8. /\ Kept(screen') /\ SameBut({"size", "laid"}, a, screen') /\ Filled(screen')
      /\ a.page = Proxy => screen'.laid
  BY <1>6, <1>7, PageResized
<1>9. SameBut({"window", "size", "laid"}, s, screen')
  BY <1>4, <1>8 DEF SameBut
<1>10. screen'.page = s.page /\ screen'.sub = s.sub /\ screen'.missed = s.missed /\ screen'.open = s.open
  BY <1>9 DEF SameBut, AllFields, PageFields
<1>11. screen'.updated = s.updated
  BY <1>9 DEF SameBut, AllFields, PageFields
<1>12. screen'.twice = s.twice
  BY <1>9 DEF SameBut, AllFields, PageFields
<1>13. Visible(screen') = Visible(s)
  BY <1>10 DEF Visible
<1>14. OwnerIn(screen', Visible(screen') \cup {Password})
  <2>1. screen' \in Screens
    BY <1>8 DEF Kept
  <2>2. OwnerIn(screen', Visible(s) \cup {Password})
    BY <1>2, <1>9, <2>1, SameTalk DEF Talk
  <2> QED
    BY <1>13, <2>2
<1>15. Ready(screen')
  BY <1>2, <1>5, <1>8, <1>10, <1>11 DEF Ready
<1>16. screen'.open = Visible(screen') /\ screen'.missed \cap Visible(screen') = {}
  BY <1>2, <1>10, <1>13
<1>17. ScreenInvOf(screen')
  BY <1>8, <1>14, <1>15, <1>16 DEF ScreenInvOf
<1>18. screen'.twice = FALSE
  BY <1>12 DEF ScreenInv
<1> QED
  BY <1>17, <1>18 DEF ScreenInv

\* Nothing is left when the pages are gone.
LEMMA ExitStep == ASSUME ScreenInv, Exit PROVE ScreenInv'
<1> DEFINE c == CancelModalDialog(screen)
           s == ClosePage(c, screen.page)
           a == SetPage(s, NoPage)
           b == SetMade(a, {})
           d == SetSub(b, NoPage)
           e == SetPending(d, {})
<1>1. ScreenInvOf(screen) /\ screen.page \in TopPages /\ screen.twice = FALSE
  BY DEF ScreenInv, ScreenInvOf, Kept, Screens, Exit, Running
<1>2. ScreenInvOf(c) /\ c.page = screen.page /\ c.twice = screen.twice
  BY <1>1, CancelDialogStep
<1>3. screen' = SetMissed(e, {})
  BY DEF Exit, SetPage, SetMade, SetSub, SetPending, SetMissed
<1>4. s = ClosePage(c, c.page)
  BY <1>2
<1>5. /\ a = SetPage(s, NoPage) /\ b = SetMade(a, {}) /\ d = SetSub(b, NoPage) /\ e = SetPending(d, {})
  OBVIOUS
<1> HIDE DEF c, s, a, b, d, e
<1>6. Kept(c) /\ c.page \in TopPages /\ c.open = Visible(c) /\ OwnerIn(c, Visible(c) \cup {Password})
  BY <1>1, <1>2 DEF ScreenInvOf
<1>7. Kept(s) /\ s.open = {} /\ SameBut(Talk \cup {"open"}, c, s) /\ OwnerIn(s, {Password})
  BY <1>4, <1>6, PageClosed
<1>8. s \in Screens /\ ResumableIn(s) /\ Together(s)
  BY <1>7 DEF Kept
<1>9. a \in Screens /\ a.page = NoPage /\ SameBut({"page"}, s, a)
  BY <1>5, <1>8, PageSet
<1>10. b \in Screens /\ SameBut({"made"}, a, b)
  BY <1>5, <1>9, MadeSet
<1>11. d \in Screens /\ d.sub = NoPage /\ SameBut({"sub"}, b, d)
  BY <1>5, <1>10, SubSet
<1>12. e \in Screens /\ SameBut({"pending"}, d, e)
  BY <1>5, <1>11, PendingSet
<1>13. screen' \in Screens /\ screen'.missed = {} /\ SameBut({"missed"}, e, screen')
  BY <1>3, <1>12, MissedSet
<1>14. SameBut({"page", "made", "sub", "pending", "missed"}, s, screen')
  BY <1>9, <1>10, <1>11, <1>12, <1>13 DEF SameBut
<1>15. screen'.page = NoPage /\ screen'.sub = NoPage
  BY <1>9, <1>10, <1>11, <1>12, <1>13 DEF SameBut, AllFields, PageFields
<1>16. screen'.open = {} /\ screen'.size = s.size
  BY <1>7, <1>14 DEF SameBut, AllFields, PageFields
<1>17. screen'.laid = s.laid
  BY <1>14 DEF SameBut, AllFields, PageFields
<1>18. screen'.twice = FALSE
  <2>1. screen'.twice = s.twice
    BY <1>14 DEF SameBut, AllFields, PageFields
  <2>2. s.twice = c.twice
    BY <1>7 DEF SameBut, AllFields, PageFields, Talk
  <2> QED
    BY <1>1, <1>2, <2>1, <2>2
<1>19. Visible(screen') = {} /\ NoPage # Proxy
  BY <1>15, PagesApart DEF Visible
<1>20. ResumableIn(screen') /\ OwnerIn(screen', {Password})
  BY <1>7, <1>8, <1>13, <1>14, SameTalk DEF Talk
<1>21. Together(screen')
  BY <1>8, <1>15, <1>16, <1>17 DEF Together
<1>22. Kept(screen')
  BY <1>13, <1>20, <1>21 DEF Kept, Announced
<1>23. ScreenInvOf(screen')
  BY <1>15, <1>16, <1>19, <1>20, <1>22 DEF ScreenInvOf, Filled, Ready, OwnerIn
<1> QED
  BY <1>18, <1>23 DEF ScreenInv

\* Every step keeps the invariant.
LEMMA ScreenInvStep == ASSUME Interrupting = FALSE, ScreenInv, [ScreenNext]_screen PROVE ScreenInv'
<1>1. CASE UpdateScreen
  BY <1>1, UpdateStep DEF UpdateScreen
<1>2. CASE OnMpdAuth
  BY <1>2, AuthStep
<1>3. CASE OnAnswer
  BY <1>3, AnswerStep
<1>4. CASE OnCancelKey
  <2>1. screen' = CancelModalDialog(screen) /\ ScreenInvOf(screen)
    BY <1>4 DEF OnCancelKey, ScreenInv
  <2>2. ScreenInvOf(screen') /\ screen'.twice = screen.twice
    BY <2>1, CancelDialogStep
  <2> QED
    BY <2>2 DEF ScreenInv
<1>5. CASE NavigateCommand
  BY <1>5, NavigateStep
<1>6. CASE StartCommand
  BY <1>6, StartCommandStep
<1>7. CASE OnResize
  BY <1>7, ResizeStep
<1>8. CASE Exit
  BY <1>8, ExitStep
<1>9. CASE Exited \/ UNCHANGED screen
  <2>1. screen' = screen
    BY <1>9 DEF Exited
  <2> QED
    BY <2>1 DEF ScreenInv
<1> QED
  BY <1>1, <1>2, <1>3, <1>4, <1>5, <1>6, <1>7, <1>8, <1>9 DEF ScreenNext

\* Pages, sub-pages, dialogs and coroutines come and go in any order and number: unless a command
\* starts a coroutine on a page that has one suspended, what is on the screen is open, current, of
\* the terminal's size and in touch with the dialog that is waited for, and ...
THEOREM ScreenIsSound ==
    ASSUME Interrupting = FALSE
    PROVE  ScreenSpec => []ScreenSound
<1>1. ScreenInit => ScreenInv
  BY ScreenInvInit
<1>2. ScreenInv /\ [ScreenNext]_screen => ScreenInv'
  BY ScreenInvStep
<1>3. ScreenInv => ScreenSound
  BY ScreenInvIsSound
<1> QED
  BY <1>1, <1>2, <1>3, PTL DEF ScreenSpec

\* ... no coroutine is destroyed twice: only such a command can do that.
THEOREM CoroutinesAreDestroyedOnce ==
    ASSUME Interrupting = FALSE
    PROVE  ScreenSpec => []DestroyedOnce
<1>1. ScreenInit => ScreenInv
  BY ScreenInvInit
<1>2. ScreenInv /\ [ScreenNext]_screen => ScreenInv'
  BY ScreenInvStep
<1>3. ScreenInv => DestroyedOnce
  BY ScreenInvIsSound
<1> QED
  BY <1>1, <1>2, <1>3, PTL DEF ScreenSpec
-----------------------------------------------------------------------------
(* Induction, on natural numbers and on finite sets *)

\* Numbers one of which is in a set have a least one.
LEMMA LeastNumber ==
  ASSUME NEW S \in SUBSET Nat, NEW n \in S
  PROVE  \E m \in S : \A k \in 0..m - 1 : k \notin S
<1> DEFINE Smaller == OpToRel(<, Nat)
<1>1. IsWellFoundedOn(Smaller, Nat)
  BY NatLessThanWellFounded
<1>2. \A x, y \in Nat : x < y => <<x, y>> \in Smaller
  BY DEF OpToRel
<1> HIDE DEF Smaller
<1>3. \E m \in S : \A x \in S : <<x, m>> \notin Smaller
  BY <1>1, WFMin, Zenon
<1>4. \E m \in S : \A x \in S : ~(x < m)
  BY <1>2, <1>3, Zenon
<1> QED
  BY <1>4

\* A finite set that is not empty has a member before which there is none, in any order.
LEMMA FirstOfSet ==
  ASSUME NEW S, IsFiniteSet(S), S # {}, NEW R,
         \A x \in S : <<x, x>> \notin R,
         \A x, y, z \in S : <<x, y>> \in R /\ <<y, z>> \in R => <<x, z>> \in R
  PROVE  \E x \in S : \A y \in S : <<y, x>> \notin R
<1> DEFINE HasFirst(T) == \E x \in T : \A y \in T : <<y, x>> \notin R
           Bad == {T \in SUBSET S : T # {} /\ ~HasFirst(T)}
<1>1. SUFFICES ASSUME Bad # {} PROVE FALSE
  OBVIOUS
<1>2. IsWellFoundedOn(StrictSubsetOrdering(S), SUBSET S)
  BY FS_StrictSubsetOrderingWellFounded, FS_FiniteSubsetsOfFinite
<1>3. PICK T \in Bad : \A U \in Bad : <<U, T>> \notin StrictSubsetOrdering(S)
  <2>1. Bad \subseteq SUBSET S
    OBVIOUS
  <2> HIDE DEF Bad
  <2> QED
    BY <1>1, <1>2, <2>1, WFMin
<1>4. PICK x \in T : TRUE
  OBVIOUS
<1> DEFINE U == T \ {x}
<1>5. T \subseteq S /\ U \subseteq S /\ U # T
  BY <1>4
<1>6. U # {}
  BY <1>4, <1>5
<1>7. HasFirst(U)
  <2>1. <<U, T>> \in StrictSubsetOrdering(S)
    BY <1>5 DEF StrictSubsetOrdering
  <2> QED
    BY <1>3, <1>5, <1>6, <2>1
<1>8. PICK u \in U : \A y \in U : <<y, u>> \notin R
  BY <1>7
<1>9. CASE <<x, u>> \in R
  BY <1>4, <1>5, <1>8, <1>9
<1>10. CASE <<x, u>> \notin R
  BY <1>4, <1>5, <1>8, <1>10
<1> QED
  BY <1>9, <1>10
-----------------------------------------------------------------------------
(* The order of lines *)

LEMMA LineFacts ==
  ASSUME NEW l \in Lines
  PROVE  /\ l \in Seq(Chars) /\ Len(l) \in 0..MaxLine /\ DOMAIN l = 1..Len(l)
         /\ \A i \in 1..Len(l) : l[i] \in Chars /\ CharOrder[l[i]] \in Nat
<1>1. PICK n \in 0..MaxLine : l \in [1..n -> Chars]
  BY DEF Lines
<1> QED
  BY <1>1, TextAssumption

LEMMA IsLine ==
  ASSUME NEW l \in Seq(Chars), Len(l) <= MaxLine
  PROVE  l \in Lines
BY TextAssumption DEF Lines

LEMMA EmptyLine == <<>> \in Lines
<1> DEFINE e == <<>>
<1>1. e \in Seq(Chars) /\ Len(e) = 0
  OBVIOUS
<1> HIDE DEF e
<1>2. Len(e) <= MaxLine
  BY <1>1, TextAssumption
<1>3. e \in Lines
  BY <1>1, <1>2, IsLine
<1> QED
  BY <1>3 DEF e

\* A prefix, character by character.
LEMMA PrefixFacts ==
  ASSUME NEW l \in Lines, NEW p \in Lines
  PROVE  StartsWith(l, p) <=> Len(p) <= Len(l) /\ \A i \in 1..Len(p) : l[i] = p[i]
<1>1. ASSUME Len(p) <= Len(l)
      PROVE  /\ Len(SubSeq(l, 1, Len(p))) = Len(p) /\ SubSeq(l, 1, Len(p)) \in Seq(Chars)
             /\ \A i \in 1..Len(p) : SubSeq(l, 1, Len(p))[i] = l[i]
  BY <1>1, LineFacts
<1>2. ASSUME Len(p) <= Len(l), \A i \in 1..Len(p) : l[i] = p[i]
      PROVE  SubSeq(l, 1, Len(p)) = p
  <2> DEFINE s == SubSeq(l, 1, Len(p))
  <2>1. s \in Seq(Chars) /\ p \in Seq(Chars) /\ Len(s) = Len(p) /\ \A i \in 1..Len(p) : s[i] = p[i]
    BY <1>1, <1>2, LineFacts
  <2> HIDE DEF s
  <2>2. s = p
    BY <2>1
  <2> QED
    BY <2>2 DEF s
<1> QED
  BY <1>1, <1>2 DEF StartsWith

\* Lines with the same characters are the same.
LEMMA SameLine ==
  ASSUME NEW a \in Lines, NEW b \in Lines, Len(a) = Len(b), \A i \in 1..Len(a) : a[i] = b[i]
  PROVE  a = b
BY LineFacts

\* The order: a prefix, or smaller where they begin to differ.
LEMMA LessFacts ==
  ASSUME NEW a \in Lines, NEW b \in Lines
  PROVE  Less(a, b) <=>
           \/ /\ Len(a) < Len(b) /\ \A i \in 1..Len(a) : b[i] = a[i]
           \/ \E i \in 1..Len(a) :
                /\ i <= Len(b) /\ \A j \in 1..i - 1 : a[j] = b[j]
                /\ CharOrder[a[i]] < CharOrder[b[i]]
<1>1. StartsWith(b, a) /\ a # b <=> Len(a) < Len(b) /\ \A i \in 1..Len(a) : b[i] = a[i]
  BY PrefixFacts, SameLine, LineFacts
<1>2. ASSUME NEW i \in 1..Len(a), i <= Len(b)
      PROVE  SubSeq(a, 1, i - 1) = SubSeq(b, 1, i - 1) <=> \A j \in 1..i - 1 : a[j] = b[j]
  <2> DEFINE s == SubSeq(a, 1, i - 1)
             t == SubSeq(b, 1, i - 1)
  <2>1. /\ s \in Seq(Chars) /\ t \in Seq(Chars) /\ Len(s) = i - 1 /\ Len(t) = i - 1
        /\ \A j \in 1..i - 1 : s[j] = a[j] /\ t[j] = b[j]
    BY <1>2, LineFacts
  <2> HIDE DEF s, t
  <2>2. s = t <=> \A j \in 1..i - 1 : a[j] = b[j]
    BY <2>1
  <2> QED
    BY <2>2 DEF s, t
<1> QED
  BY <1>1, <1>2 DEF Less

LEMMA LessAsPrefix ==
  ASSUME NEW a \in Lines, NEW b \in Lines, Len(a) < Len(b), \A i \in 1..Len(a) : b[i] = a[i]
  PROVE  Less(a, b)
BY LessFacts

LEMMA LessFrom ==
  ASSUME NEW a \in Lines, NEW b \in Lines, NEW i \in 1..Len(a), i <= Len(b),
         \A j \in 1..i - 1 : a[j] = b[j], CharOrder[a[i]] < CharOrder[b[i]]
  PROVE  Less(a, b)
BY LessFacts

\* Of two lines, one is less, or they are the same.
LEMMA LessTotal ==
  ASSUME NEW a \in Lines, NEW b \in Lines
  PROVE  Less(a, b) \/ Less(b, a) \/ a = b
<1> DEFINE D == {i \in Nat : i \in 1..Len(a) /\ i <= Len(b) /\ a[i] # b[i]}
<1>1. CASE D = {}
  <2>1. \A i \in 1..Len(a) : i <= Len(b) => a[i] = b[i]
    BY <1>1, LineFacts
  <2> HIDE DEF D
  <2>2. CASE Len(a) = Len(b)
    BY <2>1, <2>2, SameLine, LineFacts
  <2>3. CASE Len(a) < Len(b)
    BY <2>1, <2>3, LessFacts, LineFacts
  <2>4. CASE Len(a) > Len(b)
    BY <2>1, <2>4, LessFacts, LineFacts
  <2> QED
    BY <2>2, <2>3, <2>4, LineFacts
<1>2. CASE D # {}
  <2>1. PICK m \in D : \A k \in 0..m - 1 : k \notin D
    <3>1. D \in SUBSET Nat
      OBVIOUS
    <3> HIDE DEF D
    <3> QED
      BY <1>2, <3>1, LeastNumber
  <2>2. /\ m \in 1..Len(a) /\ m \in 1..Len(b) /\ a[m] # b[m]
        /\ \A j \in 1..m - 1 : a[j] = b[j]
    BY <2>1, LineFacts
  <2>3. CharOrder[a[m]] < CharOrder[b[m]] \/ CharOrder[b[m]] < CharOrder[a[m]]
    <3>1. a[m] \in Chars /\ b[m] \in Chars /\ CharOrder[a[m]] \in Nat /\ CharOrder[b[m]] \in Nat
      BY <2>2, LineFacts
    <3> QED
      BY <2>2, <3>1, TextAssumption
  <2> HIDE DEF D
  <2> QED
    BY <2>2, <2>3, LessFacts, LineFacts
<1> QED
  BY <1>1, <1>2

LEMMA LessIrreflexive ==
  ASSUME NEW a \in Lines
  PROVE  ~Less(a, a)
BY LessFacts, LineFacts

LEMMA LessTransitive ==
  ASSUME NEW a \in Lines, NEW b \in Lines, NEW c \in Lines, Less(a, b), Less(b, c)
  PROVE  Less(a, c)
<1> /\ Len(a) \in Nat /\ Len(b) \in Nat /\ Len(c) \in Nat
    /\ \A i \in 1..Len(a) : CharOrder[a[i]] \in Nat
    /\ \A i \in 1..Len(b) : CharOrder[b[i]] \in Nat
    /\ \A i \in 1..Len(c) : CharOrder[c[i]] \in Nat
  BY LineFacts
<1> DEFINE Differ(x, y, i) == /\ i \in 1..Len(x) /\ i <= Len(y) /\ CharOrder[x[i]] < CharOrder[y[i]]
                              /\ \A j \in 1..i - 1 : x[j] = y[j]
           Before(x, y) == Len(x) < Len(y) /\ \A i \in 1..Len(x) : y[i] = x[i]
<1>1. /\ Before(a, b) \/ \E i \in 1..Len(a) : Differ(a, b, i)
      /\ Before(b, c) \/ \E i \in 1..Len(b) : Differ(b, c, i)
  BY LessFacts
<1>2. CASE Before(a, b) /\ Before(b, c)
  <2>1. /\ Len(a) < Len(b) /\ \A i \in 1..Len(a) : b[i] = a[i]
        /\ Len(b) < Len(c) /\ \A i \in 1..Len(b) : c[i] = b[i]
    BY <1>2
  <2>2. Len(a) < Len(c)
    BY <2>1
  <2>3. \A i \in 1..Len(a) : c[i] = a[i]
    BY <2>1
  <2> HIDE DEF Differ, Before
  <2> QED
    BY <2>2, <2>3, LessAsPrefix
<1>3. ASSUME NEW i \in 1..Len(a), Differ(a, c, i)
      PROVE  Less(a, c)
  <2>1. /\ i \in 1..Len(a) /\ i <= Len(c) /\ \A j \in 1..i - 1 : a[j] = c[j]
        /\ CharOrder[a[i]] < CharOrder[c[i]]
    BY <1>3
  <2> HIDE DEF Differ, Before
  <2> QED
    BY <2>1, LessFrom
<1>4. ASSUME NEW i \in 1..Len(b), Before(a, b), Differ(b, c, i)
      PROVE  Less(a, c)
  <2>1. CASE i <= Len(a)
    <3>1. Differ(a, c, i)
      BY <1>4, <2>1
    <3> HIDE DEF Differ
    <3> QED
      BY <1>3, <2>1, <3>1
  <2>2. CASE i > Len(a)
    <3>1. Len(a) < Len(c) /\ \A j \in 1..Len(a) : c[j] = a[j]
      BY <1>4, <2>2
    <3> HIDE DEF Differ, Before
    <3> QED
      BY <3>1, LessAsPrefix
  <2> QED
    BY <2>1, <2>2
<1>5. ASSUME NEW i \in 1..Len(a), Before(b, c), Differ(a, b, i)
      PROVE  Less(a, c)
  <2>1. Differ(a, c, i)
    BY <1>5
  <2> HIDE DEF Differ
  <2> QED
    BY <1>3, <2>1
<1>6. ASSUME NEW i \in 1..Len(a), Differ(a, b, i), NEW k \in 1..Len(b), Differ(b, c, k)
      PROVE  Less(a, c)
  <2>1. CASE i <= k
    <3>1. Differ(a, c, i)
      BY <1>6, <2>1, SMTT(30)
    <3> HIDE DEF Differ
    <3> QED
      BY <1>3, <3>1
  <2>2. CASE i > k
    <3>1. Differ(a, c, k)
      BY <1>6, <2>2
    <3> HIDE DEF Differ
    <3> QED
      BY <1>3, <2>2, <3>1
  <2> HIDE DEF Differ, Before
  <2> QED
    BY <2>1, <2>2
<1> HIDE DEF Differ, Before
<1> QED
  BY <1>1, <1>2, <1>4, <1>5, <1>6
-----------------------------------------------------------------------------
(* Completion *)

LEMMA LessIsNoPrefix ==
  ASSUME NEW a \in Lines, NEW b \in Lines, Less(a, b)
  PROVE  ~StartsWith(a, b)
<1>1. Len(a) \in Nat /\ Len(b) \in Nat
      /\ \A i \in 1..Len(a) : CharOrder[a[i]] \in Nat
  BY LineFacts
<1> QED
  BY <1>1, LessFacts, PrefixFacts

\* std::mismatch() ends where the lines begin to differ, or where one ends.
LEMMA MismatchFacts ==
  ASSUME NEW a \in Lines, NEW b \in Lines
  PROVE  /\ Mismatch(a, b) \in 0..Len(a) /\ Mismatch(a, b) <= Len(b)
         /\ \A i \in 1..Mismatch(a, b) : a[i] = b[i]
         /\ \/ Mismatch(a, b) = Len(a) \/ Mismatch(a, b) >= Len(b)
            \/ a[Mismatch(a, b) + 1] # b[Mismatch(a, b) + 1]
<1> DEFINE Ends(n) == n = Len(a) \/ n >= Len(b) \/ a[n + 1] # b[n + 1]
           Equal(n) == \A i \in 1..n : i <= Len(b) /\ a[i] = b[i]
           S == {n \in 0..Len(a) : Ends(n)}
<1>1. Len(a) \in Nat /\ Len(b) \in Nat
  BY LineFacts
<1>2. PICK m \in S : \A k \in 0..m - 1 : k \notin S
  <2>1. S \in SUBSET Nat /\ Len(a) \in S
    BY <1>1
  <2> HIDE DEF S
  <2> QED
    BY <2>1, LeastNumber
<1>3. Equal(m)
  <2> SUFFICES ASSUME NEW i \in 1..m PROVE i <= Len(b) /\ a[i] = b[i]
    OBVIOUS
  <2>1. i - 1 \in 0..m - 1 /\ i - 1 \in 0..Len(a)
    BY <1>1, <1>2
  <2>2. ~Ends(i - 1)
    BY <1>2, <2>1
  <2> QED
    BY <1>1, <1>2, <2>2
<1>4. \E n \in 0..Len(a) : Ends(n) /\ Equal(n)
  BY <1>2, <1>3
<1>5. Mismatch(a, b) = CHOOSE n \in 0..Len(a) : Ends(n) /\ Equal(n)
  BY DEF Mismatch
<1>6. Mismatch(a, b) \in 0..Len(a) /\ Ends(Mismatch(a, b)) /\ Equal(Mismatch(a, b))
  <2> HIDE DEF Ends, Equal
  <2> QED
    BY <1>4, <1>5
<1> QED
  BY <1>1, <1>6

\* Lines with a prefix are next to each other: what is between two things with it has it.
LEMMA PrefixIsConvex ==
  ASSUME NEW p \in Lines, NEW l \in Lines, NEW m \in Lines,
         ~Less(l, p), ~Less(m, l), StartsWith(m, p)
  PROVE  StartsWith(l, p)
<1>1. CASE l = p
  BY <1>1, PrefixFacts, LineFacts
<1>2. CASE Less(p, l)
  <2>1. CASE Len(p) < Len(l) /\ \A i \in 1..Len(p) : l[i] = p[i]
    BY <2>1, PrefixFacts, LineFacts
  <2>2. ASSUME NEW i \in 1..Len(p), i <= Len(l), \A j \in 1..i - 1 : p[j] = l[j],
               CharOrder[p[i]] < CharOrder[l[i]]
        PROVE  FALSE
    <3>1. Len(p) <= Len(m) /\ \A j \in 1..Len(p) : m[j] = p[j]
      BY PrefixFacts
    <3>2. /\ i \in 1..Len(m) /\ \A j \in 1..i - 1 : m[j] = l[j]
          /\ CharOrder[m[i]] < CharOrder[l[i]]
      BY <2>2, <3>1, LineFacts
    <3>3. Less(m, l)
      BY <2>2, <3>2, LessFrom
    <3> QED
      BY <3>3
  <2> QED
    BY <1>2, <2>1, <2>2, LessFacts
<1> QED
  BY <1>1, <1>2, LessTotal

\* The first and the last line of a finite set
LEMMA FirstLine ==
  ASSUME NEW S \in SUBSET Lines, IsFiniteSet(S), S # {}
  PROVE  /\ \E l \in S : \A m \in S : ~Less(m, l)
         /\ \E l \in S : \A m \in S : ~Less(l, m)
<1> DEFINE R == {p \in S \X S : Less(p[1], p[2])}
           Q == {p \in S \X S : Less(p[2], p[1])}
<1>1. \A a, b \in S : (<<a, b>> \in R <=> Less(a, b)) /\ (<<a, b>> \in Q <=> Less(b, a))
  OBVIOUS
<1>2. \A a \in S : ~Less(a, a)
  BY LessIrreflexive
<1>3. \A a, b, c \in S : Less(a, b) /\ Less(b, c) => Less(a, c)
  BY LessTransitive
<1> HIDE DEF R, Q
<1>4. \A a \in S : <<a, a>> \notin R /\ <<a, a>> \notin Q
  BY <1>1, <1>2
<1>5. \A a, b, c \in S : <<a, b>> \in R /\ <<b, c>> \in R => <<a, c>> \in R
  BY <1>1, <1>3
<1>6. \A a, b, c \in S : <<a, b>> \in Q /\ <<b, c>> \in Q => <<a, c>> \in Q
  BY <1>1, <1>3
<1>7. \E l \in S : \A m \in S : <<m, l>> \notin R
  BY <1>4, <1>5, FirstOfSet
<1>8. \E l \in S : \A m \in S : <<m, l>> \notin Q
  BY <1>4, <1>6, FirstOfSet
<1> QED
  BY <1>1, <1>7, <1>8

\* What completes a line is the longest text that all lines which begin with it begin with.
LEMMA CompletionFacts ==
  ASSUME NEW list \in SUBSET SampleLines, NEW prefix \in Lines
  PROVE  LET with == {l \in list : StartsWith(l, prefix)}
             new  == Complete(list, prefix)
         IN  /\ new \in Lines /\ (new # <<>> => StartsWith(new, prefix))
             /\ with # {} => /\ \A l \in with : StartsWith(l, new)
                             /\ \A more \in Lines : (\A l \in with : StartsWith(l, more)) => StartsWith(new, more)
<1> DEFINE with == {l \in list : StartsWith(l, prefix)}
           lower == {l \in list : ~Less(l, prefix)}
           first == CHOOSE l \in lower : \A m \in lower : ~Less(m, l)
           range == {l \in lower : \A m \in lower : ~Less(l, m) => StartsWith(m, prefix)}
           last  == CHOOSE l \in range : \A m \in range : ~Less(l, m)
           new == Complete(list, prefix)
           n == Mismatch(first, last)
<1>1. new = IF lower = {} \/ ~StartsWith(first, prefix) THEN <<>> ELSE SubSeq(first, 1, n)
  BY Zenon DEF Complete
<1>2. /\ list \subseteq Lines /\ lower \subseteq Lines /\ with \subseteq lower /\ range \subseteq Lines
      /\ IsFiniteSet(lower) /\ IsFiniteSet(range)
  <2>1. list \subseteq Lines /\ IsFiniteSet(list)
    BY SampleAssumption, FS_Subset
  <2>2. lower \subseteq list /\ range \subseteq list
    OBVIOUS
  <2>3. \A l \in list : StartsWith(l, prefix) => ~Less(l, prefix)
    BY <2>1, LessIsNoPrefix
  <2> QED
    BY <2>1, <2>2, <2>3, FS_Subset
<1>3. ASSUME lower # {}
      PROVE  first \in lower /\ \A m \in lower : ~Less(m, first)
  BY <1>2, <1>3, FirstLine
<1>4. range \subseteq with
  BY <1>2, LessIrreflexive
<1>5. with \subseteq range
  <2> SUFFICES ASSUME NEW l \in with, NEW m \in lower, ~Less(l, m)
               PROVE  StartsWith(m, prefix)
    BY <1>2
  <2> QED
    BY <1>2, PrefixIsConvex
<1>6. ASSUME with # {}
      PROVE  first \in with
  BY <1>2, <1>3, <1>6, PrefixIsConvex
<1>7. ASSUME with # {}
      PROVE  last \in with /\ \A m \in with : ~Less(last, m)
  <2>1. range = with
    BY <1>4, <1>5
  <2>2. \E l \in range : \A m \in range : ~Less(l, m)
    BY <1>2, <1>7, <2>1, FirstLine
  <2> QED
    BY <2>1, <2>2
<1>8. <<>> \in Lines
  BY EmptyLine
<1>9. with # {} <=> lower # {} /\ StartsWith(first, prefix)
  BY <1>2, <1>3, <1>6
<1> HIDE DEF first, last, range, with, lower
<1>10. CASE with # {}
  <2>1. first \in Lines /\ last \in Lines
    BY <1>2, <1>6, <1>7, <1>10
  <2>2. /\ n \in 0..Len(first) /\ n <= Len(last) /\ \A i \in 1..n : first[i] = last[i]
        /\ n = Len(first) \/ n >= Len(last) \/ first[n + 1] # last[n + 1]
    BY <2>1, MismatchFacts
  <2> HIDE DEF n
  <2>3. new = SubSeq(first, 1, n)
    BY <1>1, <1>9, <1>10
  <2> HIDE DEF new
  <2>4. new \in Lines /\ Len(new) = n /\ \A i \in 1..n : new[i] = first[i]
    <3>1. first \in Seq(Chars) /\ Len(first) \in 0..MaxLine
      BY <2>1, LineFacts
    <3>2. /\ SubSeq(first, 1, n) \in Seq(Chars) /\ Len(SubSeq(first, 1, n)) = n
          /\ \A i \in 1..n : SubSeq(first, 1, n)[i] = first[i]
      BY <2>2, <3>1
    <3>3. new \in Seq(Chars) /\ Len(new) = n /\ \A i \in 1..n : new[i] = first[i]
      BY <2>3, <3>2
    <3>4. Len(new) <= MaxLine
      BY <2>2, <3>1, <3>3, TextAssumption
    <3> QED
      BY <3>3, <3>4, IsLine
  <2>5. StartsWith(first, new) /\ StartsWith(last, new)
    BY <2>1, <2>2, <2>4, PrefixFacts
  <2>6. \A l \in with : StartsWith(l, new)
    <3> TAKE l \in with
    <3>1. l \in Lines /\ ~Less(l, first) /\ ~Less(last, l)
      BY <1>2, <1>3, <1>7, <1>9, <1>10
    <3>2. ~Less(l, new)
      <4>1. CASE first = new
        BY <3>1, <4>1
      <4>2. CASE first # new
        <5>1. Len(new) < Len(first)
          BY <2>1, <2>2, <2>4, <4>2, SameLine, LineFacts
        <5>2. Less(new, first)
          BY <2>1, <2>4, <5>1, LessAsPrefix
        <5> QED
          BY <2>1, <2>4, <3>1, <5>2, LessTransitive
      <4> QED
        BY <4>1, <4>2
    <3> QED
      BY <2>1, <2>4, <2>5, <3>1, <3>2, PrefixIsConvex
  <2>7. ASSUME NEW more \in Lines, \A l \in with : StartsWith(l, more)
        PROVE  StartsWith(new, more)
    <3>1. StartsWith(first, more) /\ StartsWith(last, more)
      BY <1>6, <1>7, <1>10, <2>7
    <3>2. /\ Len(more) <= Len(first) /\ \A i \in 1..Len(more) : first[i] = more[i]
          /\ Len(more) <= Len(last) /\ \A i \in 1..Len(more) : last[i] = more[i]
      BY <2>1, <3>1, PrefixFacts
    <3>3. Len(more) \in Nat /\ Len(first) \in Nat /\ Len(last) \in Nat
      BY <2>1, LineFacts
    <3>4. Len(more) <= n
      BY <2>2, <3>2, <3>3
    <3> QED
      BY <2>2, <2>4, <3>2, <3>3, <3>4, PrefixFacts
  <2> QED
    BY <2>4, <2>6, <2>7 DEF new, with
<1>11. CASE with = {}
  BY <1>1, <1>8, <1>9, <1>11 DEF with
<1> QED
  BY <1>10, <1>11
-----------------------------------------------------------------------------
(* Columns and words *)

LEMMA WidthFacts ==
  ASSUME NEW line, NEW a \in Nat, NEW b \in Nat, a <= b
  PROVE  /\ Width(line, a, b) \in Nat /\ Width(line, b, b) = 0
         /\ \A c \in a..b : Width(line, a, c) <= Width(line, a, b)
         /\ \A other : (\A i \in 1..b : other[i] = line[i]) => Width(other, a, b) = Width(line, a, b)
<1> DEFINE Wide(l, x, y) == {i \in x + 1..y : l[i] \in WideChars}
<1>1. \A l : \A x, y \in Nat : IsFiniteSet(Wide(l, x, y)) /\ Cardinality(Wide(l, x, y)) \in Nat
  <2> SUFFICES ASSUME NEW l, NEW x \in Nat, NEW y \in Nat
               PROVE  IsFiniteSet(Wide(l, x, y)) /\ Cardinality(Wide(l, x, y)) \in Nat
    OBVIOUS
  <2>1. IsFiniteSet(x + 1..y)
    BY FS_Interval
  <2>2. Wide(l, x, y) \subseteq x + 1..y
    OBVIOUS
  <2> HIDE DEF Wide
  <2> QED
    BY <2>1, <2>2, FS_Subset, FS_CardinalityType
<1>2. Wide(line, b, b) = {}
  OBVIOUS
<1>3. \A c \in a..b : Wide(line, a, c) \subseteq Wide(line, a, b)
  OBVIOUS
<1>4. \A other : (\A i \in 1..b : other[i] = line[i]) => Wide(other, a, b) = Wide(line, a, b)
  OBVIOUS
<1>5. \A l : \A x, y \in Nat : Width(l, x, y) = (y - x) + Cardinality(Wide(l, x, y))
  BY DEF Width
<1> HIDE DEF Wide
<1>6. Cardinality({}) = 0
  BY FS_EmptySet
<1>7. \A c \in a..b : Cardinality(Wide(line, a, c)) <= Cardinality(Wide(line, a, b))
  BY <1>1, <1>3, FS_Subset
<1>8. Width(line, a, b) \in Nat
  BY <1>1, <1>5
<1>9. Width(line, b, b) = 0
  BY <1>2, <1>5, <1>6
<1>10. \A c \in a..b : Width(line, a, c) <= Width(line, a, b)
  BY <1>1, <1>5, <1>7
<1>11. \A other : (\A i \in 1..b : other[i] = line[i]) => Width(other, a, b) = Width(line, a, b)
  BY <1>4, <1>5
<1> QED
  BY <1>8, <1>9, <1>10, <1>11

LEMMA WidthType ==
  ASSUME NEW line, NEW a \in Nat, NEW b \in Nat, a <= b
  PROVE  Width(line, a, b) \in Nat /\ Width(line, b, b) = 0
BY WidthFacts

LEMMA WidthGrows ==
  ASSUME NEW line, NEW a \in Nat, NEW b \in Nat, NEW c \in a..b
  PROVE  Width(line, a, c) <= Width(line, a, b)
BY WidthFacts

LEMMA SameWidth ==
  ASSUME NEW line, NEW other, NEW a \in Nat, NEW b \in Nat, a <= b, \A i \in 1..b : other[i] = line[i]
  PROVE  Width(other, a, b) = Width(line, a, b)
BY WidthFacts

\* right_align_bytes() finds a start from which everything fits.
LEMMA RightAlignFacts ==
  ASSUME NEW line, NEW right \in Nat, NEW width \in Nat \ {0}
  PROVE  /\ RightAlign(line, right, width) \in 0..right
         /\ Width(line, RightAlign(line, right, width), right) < width
<1> DEFINE Fits(s) == s = right \/ Width(line, s, right) < width
           Rest(s) == \A t \in 0..s - 1 : Width(line, t, right) >= width
           S == {s \in 0..right : Fits(s)}
<1>1. PICK m \in S : \A k \in 0..m - 1 : k \notin S
  <2>1. S \in SUBSET Nat /\ right \in S
    OBVIOUS
  <2> HIDE DEF S
  <2> QED
    BY <2>1, LeastNumber
<1>2. Rest(m)
  <2> SUFFICES ASSUME NEW t \in 0..m - 1 PROVE Width(line, t, right) >= width
    OBVIOUS
  <2>1. t \in 0..right /\ t \notin S
    BY <1>1
  <2>2. Width(line, t, right) \in Nat
    BY <2>1, WidthType
  <2> QED
    BY <2>1, <2>2
<1>3. \E s \in 0..right : Fits(s) /\ Rest(s)
  BY <1>1, <1>2
<1>4. RightAlign(line, right, width) = CHOOSE s \in 0..right : Fits(s) /\ Rest(s)
  BY DEF RightAlign
<1>5. RightAlign(line, right, width) \in 0..right /\ Fits(RightAlign(line, right, width))
  <2> HIDE DEF Fits, Rest
  <2> QED
    BY <1>3, <1>4
<1> QED
  BY <1>5, WidthType

LEMMA SkipRightFacts ==
  ASSUME NEW line \in Lines, NEW p \in 0..Len(line), NEW word \in BOOLEAN
  PROVE  SkipRight(line, p, word) \in p..Len(line)
<1> DEFINE Ends(q) == q = Len(line) \/ (line[q + 1] \in WordChars) # word
           Past(q) == \A i \in p + 1..q : (line[i] \in WordChars) = word
           S == {q \in p..Len(line) : Ends(q)}
<1>0. Len(line) \in Nat
  BY LineFacts
<1>1. PICK m \in S : \A k \in 0..m - 1 : k \notin S
  <2>1. S \in SUBSET Nat /\ Len(line) \in S
    BY <1>0
  <2> HIDE DEF S
  <2> QED
    BY <2>1, LeastNumber
<1>2. Past(m)
  <2> SUFFICES ASSUME NEW i \in p + 1..m PROVE (line[i] \in WordChars) = word
    OBVIOUS
  <2>1. i - 1 \in p..Len(line) /\ i - 1 \in 0..m - 1 /\ i - 1 + 1 = i
    BY <1>0, <1>1
  <2>2. ~Ends(i - 1)
    BY <1>1, <2>1
  <2> QED
    BY <2>1, <2>2
<1>3. \E q \in p..Len(line) : Ends(q) /\ Past(q)
  BY <1>1, <1>2
<1>4. SkipRight(line, p, word) = CHOOSE q \in p..Len(line) : Ends(q) /\ Past(q)
  BY DEF SkipRight
<1> HIDE DEF Ends, Past
<1> QED
  BY <1>3, <1>4

LEMMA SkipLeftFacts ==
  ASSUME NEW line \in Lines, NEW p \in 0..Len(line), NEW word \in BOOLEAN
  PROVE  SkipLeft(line, p, word) \in 0..p
<1> DEFINE Ends(q) == q = 0 \/ (line[q] \in WordChars) # word
           Past(q) == \A i \in q + 1..p : (line[i] \in WordChars) = word
           S == {n \in 0..p : Ends(p - n)}
<1>0. Len(line) \in Nat /\ p \in Nat
  BY LineFacts
<1>1. PICK m \in S : \A k \in 0..m - 1 : k \notin S
  <2>1. S \in SUBSET Nat /\ p \in S
    BY <1>0
  <2> HIDE DEF S
  <2> QED
    BY <2>1, LeastNumber
<1>2. Past(p - m)
  <2> SUFFICES ASSUME NEW i \in p - m + 1..p PROVE (line[i] \in WordChars) = word
    OBVIOUS
  <2>1. p - i \in 0..p /\ p - i \in 0..m - 1 /\ p - (p - i) = i
    BY <1>0, <1>1
  <2>2. ~Ends(i)
    BY <1>1, <2>1
  <2> QED
    BY <2>1, <2>2
<1>3. \E q \in 0..p : Ends(q) /\ Past(q)
  <2>1. p - m \in 0..p /\ Ends(p - m)
    BY <1>0, <1>1
  <2> HIDE DEF Ends, Past, S
  <2> QED
    BY <1>2, <2>1
<1>4. SkipLeft(line, p, word) = CHOOSE q \in 0..p : Ends(q) /\ Past(q)
  BY DEF SkipLeft
<1> HIDE DEF Ends, Past
<1> QED
  BY <1>3, <1>4

LEMMA WordFacts ==
  ASSUME NEW line \in Lines, NEW p \in 0..Len(line)
  PROVE  NextWord(line, p) \in p..Len(line) /\ LastWord(line, p) \in 0..p
<1>0. Len(line) \in Nat
  BY LineFacts
<1>1. NextWord(line, p) \in p..Len(line)
  <2>1. CASE p = Len(line)
    BY <1>0, <2>1 DEF NextWord
  <2>2. CASE p # Len(line)
    <3> DEFINE r == SkipRight(line, p + 1, FALSE)
               q == IF line[p + 1] \in WordChars THEN p + 1 ELSE r
               s == SkipRight(line, q, TRUE)
    <3>1. p + 1 \in 0..Len(line)
      BY <1>0, <2>2
    <3>2. q \in p + 1..Len(line)
      <4>1. r \in p + 1..Len(line)
        BY <3>1, SkipRightFacts, Zenon
      <4> HIDE DEF r
      <4> QED
        BY <1>0, <3>1, <4>1
    <3>3. NextWord(line, p) = s
      BY <2>2, Zenon DEF NextWord
    <3> HIDE DEF q, r
    <3>4. q \in 0..Len(line)
      BY <1>0, <3>2
    <3>5. s \in q..Len(line)
      BY <3>4, SkipRightFacts, Zenon
    <3> HIDE DEF s
    <3> QED
      BY <1>0, <3>2, <3>3, <3>5
  <2> QED
    BY <2>1, <2>2
<1>2. LastWord(line, p) \in 0..p
  <2>1. CASE p = 0
    BY <2>1 DEF LastWord
  <2>2. CASE p # 0
    <3> DEFINE r == SkipLeft(line, p - 1, FALSE)
               q == IF line[p] \in WordChars THEN p - 1 ELSE r
               s == SkipLeft(line, q, TRUE)
    <3>1. p - 1 \in 0..Len(line)
      BY <1>0, <2>2
    <3>2. q \in 0..p - 1
      <4>1. r \in 0..p - 1
        BY <3>1, SkipLeftFacts, Zenon
      <4> HIDE DEF r
      <4> QED
        BY <1>0, <2>2, <4>1
    <3>3. LastWord(line, p) = s
      BY <2>2, Zenon DEF LastWord
    <3> HIDE DEF q, r
    <3>4. q \in 0..Len(line)
      BY <1>0, <3>2
    <3>5. s \in 0..q
      BY <3>4, SkipLeftFacts, Zenon
    <3> HIDE DEF s
    <3> QED
      BY <1>0, <3>2, <3>3, <3>5
  <2> QED
    BY <2>1, <2>2
<1> QED
  BY <1>1, <1>2
-----------------------------------------------------------------------------
(* The line and the cursor *)

\* The fields of a dialog are what they ought to be, and the cursor is in the line.
Placed(d) ==
  /\ d \in Inputs /\ d.width > 0
  /\ d.start <= d.cursor /\ d.cursor <= Len(d.value)

InSight(d) == Placed(d) /\ Column(d) < d.width

\* Everything but the line
SameDialog(e, d) ==
  /\ e.open = d.open /\ e.selected = d.selected /\ e.width = d.width /\ e.recalls = d.recalls
  /\ e.fragile = d.fragile /\ e.hlist = d.hlist /\ e.hcurrent = d.hcurrent
  /\ e.history = d.history /\ e.before = d.before

LEMMA InputFields ==
  ASSUME NEW d \in Inputs
  PROVE  /\ d.value \in Lines /\ d.value \in Seq(Chars) /\ Len(d.value) \in 0..MaxLine
         /\ d.cursor \in 0..MaxLine /\ d.start \in 0..MaxLine /\ d.cursor \in Nat /\ d.start \in Nat
         /\ d.width \in Nat /\ d.hlist \in Nat /\ d.hcurrent \in Nat
         /\ d.history \in Histories /\ d.before \in Histories
<1>1. d.value \in Lines
  BY DEF Inputs
<1>2. d.value \in Seq(Chars) /\ Len(d.value) \in 0..MaxLine
  BY <1>1, LineFacts
<1> QED
  BY <1>1, <1>2, TextAssumption DEF Inputs

\* A cursor that has moved right, or a window that has become smaller: the line is scrolled.
LEMMA RightFacts ==
  ASSUME NEW d, Placed(d)
  PROVE  LET e == CursorMovedRight(d)
         IN  InSight(e) /\ SameDialog(e, d) /\ e.value = d.value /\ e.cursor = d.cursor
<1> DEFINE s == RightAlign(d.value, d.cursor, d.width)
<1>1. d \in Inputs /\ d.width \in Nat \ {0} /\ d.cursor \in Nat /\ d.start \in Nat
      /\ d.cursor \in 0..MaxLine /\ d.start <= d.cursor /\ d.cursor <= Len(d.value) /\ MaxLine \in Nat
  BY InputFields, TextAssumption DEF Placed
<1>2. s \in 0..d.cursor /\ Width(d.value, s, d.cursor) < d.width
  BY <1>1, RightAlignFacts
<1>3. Width(d.value, d.start, d.cursor) \in Nat
  BY <1>1, WidthType
<1> HIDE DEF s
<1>4. CASE Column(d) >= d.width
  <2> DEFINE e == [d EXCEPT !.start = s]
  <2>1. CursorMovedRight(d) = e
    BY <1>4 DEF CursorMovedRight, s
  <2>2. e \in Inputs
    BY <1>1, <1>2 DEF Inputs
  <2>3. e.start = s /\ e.cursor = d.cursor /\ e.value = d.value /\ e.width = d.width /\ SameDialog(e, d)
    BY <1>1 DEF Inputs, SameDialog
  <2> HIDE DEF e
  <2>4. InSight(e)
    BY <1>1, <1>2, <2>2, <2>3 DEF InSight, Placed, Column
  <2> QED
    BY <2>1, <2>3, <2>4
<1>5. CASE ~(Column(d) >= d.width)
  <2>1. CursorMovedRight(d) = d
    BY <1>5 DEF CursorMovedRight
  <2>2. Column(d) < d.width
    BY <1>1, <1>3, <1>5 DEF Column
  <2> QED
    BY <2>1, <2>2 DEF InSight, SameDialog
<1> QED
  BY <1>4, <1>5

LEMMA EndFacts ==
  ASSUME NEW d \in Inputs, d.width > 0, d.start <= Len(d.value)
  PROVE  LET e == MoveCursorToEnd(d)
         IN  InSight(e) /\ SameDialog(e, d) /\ e.value = d.value
<1> DEFINE c == [d EXCEPT !.cursor = Len(d.value)]
<1>1. Len(d.value) \in 0..MaxLine /\ Len(d.value) \in Nat
  BY InputFields
<1>2. c \in Inputs
  BY <1>1 DEF Inputs
<1>3. c.cursor = Len(d.value) /\ c.value = d.value /\ c.start = d.start /\ c.width = d.width /\ SameDialog(c, d)
  BY DEF Inputs, SameDialog
<1>4. MoveCursorToEnd(d) = CursorMovedRight(c)
  BY DEF MoveCursorToEnd
<1> HIDE DEF c
<1>5. Placed(c)
  BY <1>1, <1>2, <1>3 DEF Placed
<1>6. /\ InSight(CursorMovedRight(c)) /\ SameDialog(CursorMovedRight(c), c)
      /\ CursorMovedRight(c).value = c.value
  BY <1>5, RightFacts
<1> QED
  BY <1>3, <1>4, <1>6 DEF SameDialog

\* A cursor that has moved left.
LEMMA LeftFacts ==
  ASSUME NEW d, InSight(d), NEW p \in 0..d.cursor
  PROVE  LET e == CursorMovedLeft([d EXCEPT !.cursor = p])
         IN  InSight(e) /\ SameDialog(e, d) /\ e.value = d.value /\ e.cursor = p
<1> DEFINE c == [d EXCEPT !.cursor = p]
           e == CursorMovedLeft(c)
<1>1. d \in Inputs /\ d.width \in Nat /\ d.width > 0 /\ d.cursor \in Nat /\ d.start \in Nat
      /\ d.cursor \in 0..MaxLine /\ d.start <= d.cursor /\ d.cursor <= Len(d.value)
      /\ Len(d.value) \in Nat /\ MaxLine \in Nat
  BY InputFields, TextAssumption DEF InSight, Placed
<1>2. p \in Nat /\ p \in 0..MaxLine
  BY <1>1
<1>3. Width(d.value, d.start, d.cursor) \in Nat /\ Width(d.value, d.start, d.cursor) < d.width
  BY <1>1, WidthType DEF InSight, Column
<1>4. CASE p < d.start
  <2>1. e = [c EXCEPT !.start = p]
    BY <1>1, <1>4 DEF CursorMovedLeft, Inputs
  <2>2. e \in Inputs
    BY <1>1, <1>2, <2>1 DEF Inputs
  <2>3. e.start = p /\ e.cursor = p /\ e.value = d.value /\ e.width = d.width /\ SameDialog(e, d)
    BY <1>1, <2>1 DEF Inputs, SameDialog
  <2> HIDE DEF e, c
  <2>4. Width(d.value, p, p) = 0
    BY <1>2, WidthType
  <2>5. InSight(e)
    BY <1>1, <1>2, <2>2, <2>3, <2>4 DEF InSight, Placed, Column
  <2> QED
    BY <2>3, <2>5 DEF e, c
<1>5. CASE ~(p < d.start)
  <2>1. e = c
    BY <1>1, <1>5 DEF CursorMovedLeft, Inputs
  <2>2. e \in Inputs
    BY <1>1, <1>2, <2>1 DEF Inputs
  <2>3. e.start = d.start /\ e.cursor = p /\ e.value = d.value /\ e.width = d.width /\ SameDialog(e, d)
    BY <1>1, <2>1 DEF Inputs, SameDialog
  <2> HIDE DEF e, c
  <2>4. Width(d.value, d.start, p) <= Width(d.value, d.start, d.cursor) /\ Width(d.value, d.start, p) \in Nat
    BY <1>1, <1>2, <1>5, WidthGrows, WidthType
  <2>5. InSight(e)
    BY <1>1, <1>2, <1>3, <1>5, <2>2, <2>3, <2>4 DEF InSight, Placed, Column
  <2> QED
    BY <2>3, <2>5 DEF e, c
<1> QED
  BY <1>4, <1>5

LEMMA MovedRightFacts ==
  ASSUME NEW d, InSight(d), NEW p \in d.cursor..Len(d.value)
  PROVE  LET e == CursorMovedRight([d EXCEPT !.cursor = p])
         IN  InSight(e) /\ SameDialog(e, d) /\ e.value = d.value
<1> DEFINE c == [d EXCEPT !.cursor = p]
<1>1. d \in Inputs /\ d.width > 0 /\ d.cursor \in Nat /\ d.start \in Nat /\ d.start <= d.cursor
      /\ Len(d.value) \in 0..MaxLine /\ MaxLine \in Nat
  BY InputFields, TextAssumption DEF InSight, Placed
<1>2. c \in Inputs
  BY <1>1 DEF Inputs
<1>3. c.cursor = p /\ c.value = d.value /\ c.start = d.start /\ c.width = d.width /\ SameDialog(c, d)
  BY <1>1 DEF Inputs, SameDialog
<1> HIDE DEF c
<1>4. Placed(c)
  BY <1>1, <1>2, <1>3 DEF Placed
<1>5. /\ InSight(CursorMovedRight(c)) /\ SameDialog(CursorMovedRight(c), c)
      /\ CursorMovedRight(c).value = c.value
  BY <1>4, RightFacts
<1> QED
  BY <1>3, <1>5 DEF SameDialog, c

LEMMA ConcatFacts ==
  ASSUME NEW S, NEW x \in Seq(S), NEW y \in Seq(S)
  PROVE  /\ x \o y \in Seq(S) /\ Len(x \o y) = Len(x) + Len(y)
         /\ \A i \in 1..Len(x) : (x \o y)[i] = x[i]
OBVIOUS

\* What an edit leaves in the line.
LEMMA EditedLine ==
  ASSUME NEW line \in Lines, NEW a \in 0..Len(line), NEW b \in a..Len(line), NEW new \in Seq(Chars),
         a + Len(new) + (Len(line) - b) <= MaxLine
  PROVE  LET v == SubSeq(line, 1, a) \o new \o SubSeq(line, b + 1, Len(line))
         IN  /\ v \in Lines /\ Len(v) = a + Len(new) + (Len(line) - b)
             /\ \A i \in 1..a : v[i] = line[i]
<1> DEFINE x == SubSeq(line, 1, a)
           y == SubSeq(line, b + 1, Len(line))
           v == x \o new \o y
<1>1. line \in Seq(Chars) /\ Len(line) \in Nat /\ Len(new) \in Nat
  BY LineFacts
<1>2. x \in Seq(Chars) /\ Len(x) = a /\ \A i \in 1..a : x[i] = line[i]
  BY <1>1
<1>3. y \in Seq(Chars) /\ Len(y) = Len(line) - b
  BY <1>1
<1> HIDE DEF x, y
<1>4. v \in Seq(Chars) /\ Len(v) = a + Len(new) + (Len(line) - b) /\ \A i \in 1..a : v[i] = x[i]
  <2> DEFINE z == x \o new
  <2>1. z \in Seq(Chars) /\ Len(z) = a + Len(new) /\ \A i \in 1..a : z[i] = x[i]
    BY <1>1, <1>2, SMTT(30)
  <2> HIDE DEF z
  <2>2. z \o y \in Seq(Chars) /\ Len(z \o y) = Len(z) + Len(y) /\ \A i \in 1..Len(z) : (z \o y)[i] = z[i]
    BY <1>3, <2>1, ConcatFacts, Zenon
  <2>3. v = z \o y
    BY DEF z
  <2> HIDE DEF v
  <2>4. a \in Nat /\ Len(new) \in Nat
    BY <1>1
  <2>5. 1..a \subseteq 1..Len(z)
    BY <2>1, <2>4
  <2> QED
    BY <1>3, <2>1, <2>2, <2>3, <2>5
<1> HIDE DEF v
<1>5. v \in Lines
  BY <1>4, IsLine
<1> QED
  BY <1>2, <1>4, <1>5 DEF v, x, y

\* What is deleted from the cursor on leaves the cursor in sight.
LEMMA DeletedFacts ==
  ASSUME NEW d, InSight(d), NEW b \in d.cursor..Len(d.value)
  PROVE  InSight(Edit(d, d.cursor, b, <<>>)) /\ SameDialog(Edit(d, d.cursor, b, <<>>), d)
<1> DEFINE none == <<>>
           v == SubSeq(d.value, 1, d.cursor) \o none \o SubSeq(d.value, b + 1, Len(d.value))
           e == [d EXCEPT !.value = v]
<1>1. d \in Inputs /\ d.width \in Nat /\ d.width > 0 /\ d.cursor \in Nat /\ d.start \in Nat
      /\ d.cursor \in 0..MaxLine /\ d.start <= d.cursor /\ d.cursor <= Len(d.value)
      /\ Len(d.value) \in 0..MaxLine /\ MaxLine \in Nat /\ d.value \in Lines
  BY InputFields, TextAssumption DEF InSight, Placed
<1>2. none \in Seq(Chars) /\ Len(none) = 0
  OBVIOUS
<1>3. Edit(d, d.cursor, b, <<>>) = e
  BY <1>1 DEF Edit, Inputs
<1> HIDE DEF none
<1>4. v \in Lines /\ Len(v) = d.cursor + (Len(d.value) - b) /\ \A i \in 1..d.cursor : v[i] = d.value[i]
  <2>1. d.cursor \in 0..Len(d.value) /\ d.cursor + Len(none) + (Len(d.value) - b) <= MaxLine
    BY <1>1, <1>2
  <2>2. Len(v) = d.cursor + Len(none) + (Len(d.value) - b) /\ v \in Lines
        /\ \A i \in 1..d.cursor : v[i] = d.value[i]
    BY <1>1, <1>2, <2>1, EditedLine
  <2> HIDE DEF v
  <2>3. d.cursor \in Nat /\ Len(none) = 0
    BY <1>1, <1>2
  <2>4. d.cursor + Len(none) = d.cursor
    BY <2>3
  <2> QED
    BY <2>2, <2>4
<1> HIDE DEF v
<1>5. e \in Inputs
  BY <1>1, <1>4 DEF Inputs
<1>6. e.value = v /\ e.cursor = d.cursor /\ e.start = d.start /\ e.width = d.width /\ SameDialog(e, d)
  BY <1>1 DEF Inputs, SameDialog
<1> HIDE DEF e
<1>7. Width(v, d.start, d.cursor) = Width(d.value, d.start, d.cursor)
  <2>1. d.start \in Nat /\ d.cursor \in Nat /\ d.start <= d.cursor /\ \A i \in 1..d.cursor : v[i] = d.value[i]
    BY <1>1, <1>4
  <2> QED
    BY <2>1, SameWidth, Zenon
<1>8. d.cursor <= Len(v)
  BY <1>1, <1>4
<1>9. InSight(e)
  BY <1>1, <1>5, <1>6, <1>7, <1>8 DEF InSight, Placed, Column
<1> QED
  BY <1>3, <1>6, <1>9

LEMMA ClearedFacts ==
  ASSUME NEW d, Placed(d)
  PROVE  InSight(Clear(d)) /\ SameDialog(Clear(d), d) /\ Clear(d).value = <<>> /\ Clear(d).cursor = 0
<1> DEFINE none == <<>>
           zero == 0
           e == [d EXCEPT !.value = none, !.cursor = zero, !.start = zero]
<1>1. d \in Inputs /\ d.width \in Nat /\ d.width > 0 /\ MaxLine \in Nat
  BY InputFields, TextAssumption DEF Placed
<1>2. none \in Lines /\ Len(none) = 0
  BY EmptyLine
<1>3. Clear(d) = e
  BY DEF Clear
<1>0. zero \in 0..MaxLine
  BY <1>1
<1> HIDE DEF none, zero
<1>4. e \in Inputs
  BY <1>0, <1>1, <1>2 DEF Inputs
<1>5. e.value = none /\ e.cursor = zero /\ e.start = zero /\ e.width = d.width /\ SameDialog(e, d)
  BY <1>1 DEF Inputs, SameDialog
<1> HIDE DEF e
<1>6. Width(none, 0, 0) = 0
  BY WidthType
<1> QED
  BY <1>1, <1>2, <1>3, <1>4, <1>5, <1>6 DEF InSight, Placed, Column, none, zero
-----------------------------------------------------------------------------
(* The history *)

\* The dialog that reads the history is open, and its own line is the last one; what has been
\* closed is as new.
Talking(d) ==
  /\ d.recalls => /\ d.open /\ d.hcurrent = Len(d.history) /\ d.hlist \in 1..d.hcurrent
                  /\ Front1(d.history) = d.before
  /\ ~d.open => d.start = 0 /\ d.cursor = 0

TextGood(d) == InSight(d) /\ Talking(d)

LEMMA HistoryFacts ==
  ASSUME NEW h
  PROVE  h \in Histories <=> h \in Seq(Lines) /\ Len(h) <= HistoryBound
<1>1. ASSUME h \in Histories
      PROVE  h \in Seq(Lines) /\ Len(h) <= HistoryBound
  <2>1. PICK n \in 0..HistoryBound : h \in [1..n -> Lines]
    BY <1>1 DEF Histories
  <2> QED
    BY <2>1, TextAssumption
<1>2. ASSUME h \in Seq(Lines), Len(h) <= HistoryBound
      PROVE  h \in Histories
  <2>1. Len(h) \in 0..HistoryBound /\ h \in [1..Len(h) -> Lines]
    BY <1>2, TextAssumption
  <2> QED
    BY <2>1 DEF Histories
<1> QED
  BY <1>1, <1>2

LEMMA NewestFacts ==
  ASSUME NEW h \in Histories
  PROVE  Newest(h) \in Histories
<1>1. h \in Seq(Lines) /\ Len(h) <= HistoryBound /\ Len(h) \in Nat
  BY HistoryFacts
<1>2. CASE Len(h) > HistoryMax
  <2> DEFINE n == SubSeq(h, Len(h) - HistoryMax + 1, Len(h))
  <2>1. n \in Seq(Lines) /\ Len(n) = HistoryMax
    BY <1>1, <1>2, TextAssumption
  <2>2. Newest(h) = n
    BY <1>2 DEF Newest
  <2> HIDE DEF n
  <2> QED
    BY <2>1, <2>2, HistoryFacts, TextAssumption
<1>3. CASE ~(Len(h) > HistoryMax)
  BY <1>3 DEF Newest
<1> QED
  BY <1>2, <1>3

\* Another last line
LEMMA LastReplaced ==
  ASSUME NEW h \in Histories, h # <<>>, NEW v \in Lines
  PROVE  /\ Len(h) \in 1..HistoryBound
         /\ [h EXCEPT ![Len(h)] = v] = Append(Front1(h), v)
         /\ [h EXCEPT ![Len(h)] = v] \in Histories
         /\ Len([h EXCEPT ![Len(h)] = v]) = Len(h)
         /\ Front1([h EXCEPT ![Len(h)] = v]) = Front1(h)
         /\ Front1(h) \in Histories /\ Len(Front1(h)) = Len(h) - 1
<1>1. h \in Seq(Lines) /\ Len(h) <= HistoryBound /\ Len(h) \in Nat /\ Len(h) > 0
  BY HistoryFacts
<1> DEFINE f == Front1(h)
           g == [h EXCEPT ![Len(h)] = v]
           a == Append(f, v)
<1>2. f \in Seq(Lines) /\ Len(f) = Len(h) - 1 /\ \A i \in 1..Len(h) - 1 : f[i] = h[i]
  BY <1>1, SMTT(30) DEF Front1
<1> HIDE DEF f
<1>3. a \in Seq(Lines) /\ Len(a) = Len(h) /\ a[Len(h)] = v /\ \A i \in 1..Len(h) - 1 : a[i] = h[i]
  BY <1>1, <1>2
<1>4. g \in Seq(Lines) /\ Len(g) = Len(h) /\ g[Len(h)] = v /\ \A i \in 1..Len(h) - 1 : g[i] = h[i]
  BY <1>1
<1> HIDE DEF a, g
<1>5. g = a
  BY <1>1, <1>3, <1>4
<1>6. g \in Histories /\ f \in Histories
  <2>1. Len(g) <= HistoryBound /\ Len(f) <= HistoryBound
    BY <1>1, <1>2, <1>4, TextAssumption
  <2> QED
    BY <1>2, <1>4, <2>1, HistoryFacts, Zenon
<1>7. Front1(g) = f
  <2> DEFINE k == Front1(g)
  <2>1. k \in Seq(Lines) /\ Len(k) = Len(h) - 1 /\ \A i \in 1..Len(h) - 1 : k[i] = g[i]
    BY <1>1, <1>4 DEF Front1
  <2> HIDE DEF k
  <2>2. k = f
    BY <1>1, <1>2, <1>4, <2>1
  <2> QED
    BY <2>2 DEF k
<1> QED
  BY <1>1, <1>2, <1>4, <1>5, <1>6, <1>7 DEF f, a, g

\* The fields that follow from Talking
LEMMA RecallFacts ==
  ASSUME NEW d, TextGood(d), d.recalls = TRUE
  PROVE  /\ d \in Inputs /\ d.history \in Histories /\ d.history # <<>>
         /\ d.hcurrent = Len(d.history) /\ d.hcurrent \in 1..HistoryBound /\ d.hlist \in 1..d.hcurrent
         /\ \A i \in 1..d.hcurrent : d.history[i] \in Lines
         /\ d.before = Front1(d.history) /\ d.open
<1>1. d \in Inputs /\ d.history \in Histories
  BY InputFields DEF TextGood, InSight, Placed
<1>2. d.history \in Seq(Lines) /\ Len(d.history) <= HistoryBound
  BY <1>1, HistoryFacts
<1>3. d.hcurrent = Len(d.history) /\ d.hlist \in 1..d.hcurrent /\ d.before = Front1(d.history) /\ d.open
  BY DEF TextGood, Talking
<1>4. Len(d.history) \in Nat /\ Len(d.history) >= 1
  BY <1>2, <1>3
<1> QED
  BY <1>1, <1>2, <1>3, <1>4

-----------------------------------------------------------------------------
(* The end of the dialog, and its beginning *)

LEMMA OverFacts ==
  ASSUME NEW d \in Inputs, d.width > 0
  PROVE  /\ TextGood(Over(d)) /\ ~Over(d).open /\ ~Over(d).recalls
         /\ Over(d).history = d.history /\ Over(d).width = d.width
<1> DEFINE none == <<>>
           zero == 0
           no == FALSE
           e == [d EXCEPT !.open = no, !.value = none, !.cursor = zero, !.start = zero, !.selected = no,
                          !.hlist = zero, !.hcurrent = zero, !.before = none, !.recalls = no, !.fragile = no]
<1>1. d.width \in Nat /\ MaxLine \in Nat
  BY InputFields, TextAssumption
<1>2. none \in Lines /\ Len(none) = 0 /\ zero \in 0..MaxLine /\ zero \in Nat /\ no \in BOOLEAN
  BY <1>1, EmptyLine
<1>3. none \in Histories
  <2>1. none \in Seq(Lines) /\ Len(none) <= HistoryBound
    BY TextAssumption
  <2> HIDE DEF none
  <2> QED
    BY <2>1, HistoryFacts
<1>4. Over(d) = e
  BY DEF Over
<1>5. ~no /\ Width(none, zero, zero) = 0
  BY WidthType
<1>6. zero <= zero /\ zero <= Len(none)
  OBVIOUS
<1> HIDE DEF none, zero, no
<1>7. e \in Inputs
  BY <1>2, <1>3 DEF Inputs
<1>8. /\ e.value = none /\ e.cursor = zero /\ e.start = zero /\ e.width = d.width
      /\ e.open = no /\ e.recalls = no /\ e.history = d.history
  BY DEF Inputs
<1> HIDE DEF e
<1>9. InSight(e) /\ (~e.open => e.start = zero /\ e.cursor = zero)
  BY <1>1, <1>2, <1>5, <1>6, <1>7, <1>8 DEF InSight, Placed, Column
<1> QED
  BY <1>4, <1>5, <1>8, <1>9 DEF TextGood, Talking, zero

\* A dialog that is cancelled leaves the history as it found it.
LEMMA CancelFacts ==
  ASSUME NEW d, TextGood(d)
  PROVE  /\ TextGood(OnCancel(d)) /\ ~OnCancel(d).open /\ ~OnCancel(d).recalls
         /\ OnCancel(d).history = (IF d.recalls THEN d.before ELSE d.history)
         /\ OnCancel(d).width = d.width
<1>1. d \in Inputs /\ d.width > 0
  BY DEF TextGood, InSight, Placed
<1>2. CASE d.recalls
  <2> DEFINE e == [d EXCEPT !.history = d.before]
  <2>1. d.recalls = TRUE
    BY <1>1, <1>2 DEF Inputs
  <2>2. OnCancel(d) = Over(e)
    BY <1>2, <2>1, RecallFacts DEF OnCancel
  <2>3. e \in Inputs /\ e.history = d.before /\ e.width = d.width
    BY <1>1 DEF Inputs
  <2> HIDE DEF e
  <2>4. /\ TextGood(Over(e)) /\ ~Over(e).open /\ ~Over(e).recalls
        /\ Over(e).history = e.history /\ Over(e).width = e.width
    BY <1>1, <2>3, OverFacts
  <2> QED
    BY <1>2, <2>2, <2>3, <2>4
<1>3. CASE ~d.recalls
  BY <1>1, <1>3, OverFacts DEF OnCancel
<1> QED
  BY <1>2, <1>3

\* A line that is entered is the last of the history.
LEMMA CommitFacts ==
  ASSUME NEW d, TextGood(d)
  PROVE  /\ TextGood(Over(CommitHistory(d)))
         /\ d.recalls => Over(CommitHistory(d)).history =
              Newest(IF d.value # <<>> THEN Append(d.before, d.value) ELSE d.before)
<1>1. d \in Inputs /\ d.width > 0 /\ d.value \in Lines
  BY InputFields DEF TextGood, InSight, Placed
<1>2. CASE d.recalls
  <2> DEFINE h == IF d.value # <<>> THEN Append(d.before, d.value) ELSE d.before
             e == [d EXCEPT !.history = Newest(h)]
  <2>0. d.recalls = TRUE
    BY <1>1, <1>2 DEF Inputs
  <2>1. /\ d.history \in Histories /\ d.history # <<>> /\ d.hcurrent = Len(d.history)
        /\ d.before = Front1(d.history)
    BY <2>0, RecallFacts
  <2>2. /\ [d.history EXCEPT ![d.hcurrent] = d.value] = Append(d.before, d.value)
        /\ [d.history EXCEPT ![d.hcurrent] = d.value] \in Histories /\ d.before \in Histories
    BY <1>1, <2>1, LastReplaced
  <2>3. h \in Histories
    BY <2>2
  <2>4. CommitHistory(d) = [d EXCEPT !.history = Newest(IF d.value # <<>>
            THEN [d.history EXCEPT ![d.hcurrent] = d.value] ELSE Front1(d.history))]
    BY <1>2 DEF CommitHistory
  <2>5. CommitHistory(d) = e
    BY <2>1, <2>2, <2>4
  <2>6. Newest(h) \in Histories
    BY <2>3, NewestFacts
  <2> HIDE DEF h
  <2>7. e \in Inputs /\ e.history = Newest(h) /\ e.width = d.width
    BY <1>1, <2>6 DEF Inputs
  <2> HIDE DEF e
  <2>8. TextGood(Over(e)) /\ Over(e).history = e.history
    BY <1>1, <2>7, OverFacts
  <2> QED
    BY <2>5, <2>7, <2>8 DEF h
<1>3. CASE ~d.recalls
  BY <1>1, <1>3, OverFacts DEF CommitHistory
<1> QED
  BY <1>2, <1>3

\* The constructor
LEMMA OpenFacts ==
  ASSUME NEW d, TextGood(d), NEW line \in Lines, NEW recalls \in BOOLEAN, NEW fragile \in BOOLEAN,
         recalls => (d.recalls \/ Len(d.history) < HistoryBound)
  PROVE  LET e == OpenDialog(d, line, recalls, fragile)
         IN  /\ TextGood(e) /\ (e.recalls <=> recalls)
             /\ recalls /\ d.recalls => e.hlist = d.hcurrent
<1> DEFINE shown == IF d.open THEN OnCancel(d) ELSE d
           empty == <<>>
           added == IF recalls THEN Append(shown.history, empty) ELSE shown.history
           mine == IF recalls THEN Len(added) ELSE 0
           yes == TRUE
           c == [shown EXCEPT !.open = yes, !.value = line, !.selected = yes, !.recalls = recalls,
                              !.fragile = fragile, !.history = added, !.before = shown.history,
                              !.hlist = mine, !.hcurrent = mine]
           e == OpenDialog(d, line, recalls, fragile)
<1>1. d \in Inputs /\ d.width > 0 /\ Len(d.history) \in Nat /\ (d.recalls => d.open)
  <2>1. d \in Inputs /\ d.width > 0 /\ (d.recalls => d.open)
    BY DEF TextGood, InSight, Placed, Talking
  <2>2. d.history \in Seq(Lines)
    BY <2>1, InputFields, HistoryFacts
  <2> QED
    BY <2>1, <2>2
<1>2. TextGood(shown) /\ shown.width = d.width
      /\ shown.history = (IF d.recalls THEN d.before ELSE d.history)
  BY <1>1, CancelFacts
<1>3. /\ shown.history \in Seq(Lines) /\ Len(shown.history) <= HistoryBound
      /\ shown.history \in Histories /\ Len(shown.history) \in Nat
      /\ d.recalls => Len(shown.history) + 1 = d.hcurrent
      /\ recalls => Len(shown.history) + 1 <= HistoryBound
  <2>1. shown \in Inputs
    BY <1>2 DEF TextGood, InSight, Placed
  <2>2. shown.history \in Histories
    BY <2>1, InputFields
  <2>3. shown.history \in Seq(Lines) /\ Len(shown.history) <= HistoryBound
    BY <2>2, HistoryFacts
  <2>4. Len(shown.history) \in Nat
    BY <2>3
  <2>5. ASSUME d.recalls
        PROVE  Len(shown.history) + 1 = d.hcurrent /\ d.hcurrent <= HistoryBound
    <3>1. d.recalls = TRUE
      BY <1>1, <2>5 DEF Inputs
    <3>2. /\ d.history \in Histories /\ d.history # <<>> /\ d.hcurrent = Len(d.history)
          /\ d.hcurrent \in 1..HistoryBound /\ d.before = Front1(d.history)
      BY <3>1, RecallFacts
    <3>3. Len(Front1(d.history)) = Len(d.history) - 1
      BY <3>2, EmptyLine, LastReplaced
    <3>4. shown.history = Front1(d.history)
      BY <1>2, <2>5, <3>2
    <3> QED
      BY <1>1, <3>2, <3>3, <3>4, TextAssumption
  <2> HIDE DEF shown
  <2>6. ASSUME recalls, ~d.recalls
        PROVE  Len(shown.history) + 1 <= HistoryBound
    BY <1>1, <1>2, <2>6, TextAssumption
  <2> QED
    BY <2>2, <2>3, <2>4, <2>5, <2>6
<1>4. e = MoveCursorToEnd(c)
  BY DEF OpenDialog
<1>5. empty \in Lines
  BY EmptyLine
<1>6. yes \in BOOLEAN /\ yes
  OBVIOUS
<1> HIDE DEF shown, empty, yes, e
<1>7. /\ added \in Histories /\ mine \in Nat
      /\ recalls => mine = Len(added) /\ mine >= 1 /\ mine = Len(shown.history) + 1 /\ Front1(added) = shown.history
  <2>1. CASE recalls
    <3> DEFINE a == Append(shown.history, empty)
    <3>1. a \in Seq(Lines) /\ Len(a) = Len(shown.history) + 1 /\ \A i \in 1..Len(shown.history) : a[i] = shown.history[i]
      BY <1>3, <1>5
    <3>2. Len(a) <= HistoryBound
      BY <1>3, <2>1, <3>1
    <3> HIDE DEF a
    <3>3. a \in Histories
      BY <3>1, <3>2, HistoryFacts, Zenon
    <3>4. Front1(a) = shown.history
      <4> DEFINE f == Front1(a)
      <4>1. f \in Seq(Lines) /\ Len(f) = Len(shown.history) /\ \A i \in 1..Len(shown.history) : f[i] = a[i]
        BY <1>3, <3>1 DEF Front1
      <4> HIDE DEF f
      <4>2. f = shown.history
        BY <1>3, <3>1, <4>1
      <4> QED
        BY <4>2 DEF f
    <3>5. added = a /\ mine = Len(a)
      BY <2>1 DEF a
    <3> HIDE DEF added, mine
    <3> QED
      BY <1>3, <3>1, <3>3, <3>4, <3>5
  <2>2. CASE ~recalls
    BY <1>3, <2>2
  <2> QED
    BY <2>1, <2>2
<1> HIDE DEF added, mine
<1>8. shown \in Inputs /\ shown.width > 0
  BY <1>2 DEF TextGood, InSight, Placed
<1>10. shown.start <= Len(line)
  <2>1. shown.start = 0
    BY <1>1, <1>2, CancelFacts DEF shown, TextGood, Talking
  <2> QED
    BY <2>1, LineFacts
<1>11. c \in Inputs
  BY <1>3, <1>6, <1>7, <1>8 DEF Inputs
<1>12. /\ c.value = line /\ c.start = shown.start /\ c.width = shown.width /\ c.open = yes /\ c.recalls = recalls
       /\ c.history = added /\ c.before = shown.history /\ c.hlist = mine /\ c.hcurrent = mine
  BY <1>8 DEF Inputs
<1> HIDE DEF c
<1>13. InSight(e) /\ SameDialog(e, c)
  BY <1>4, <1>8, <1>10, <1>11, <1>12, EndFacts
<1>14. Talking(e)
  BY <1>6, <1>7, <1>12, <1>13 DEF Talking, SameDialog
<1> QED
  BY <1>3, <1>7, <1>12, <1>13, <1>14 DEF TextGood, SameDialog, e

LEMMA CommittedIsInput ==
  ASSUME NEW d, TextGood(d)
  PROVE  CommitHistory(d) \in Inputs /\ CommitHistory(d).width > 0
<1>1. d \in Inputs /\ d.width > 0 /\ d.value \in Lines
  BY InputFields DEF TextGood, InSight, Placed
<1>2. CASE d.recalls
  <2> DEFINE h == IF d.value # <<>> THEN [d.history EXCEPT ![d.hcurrent] = d.value] ELSE Front1(d.history)
  <2>1. d.recalls = TRUE
    BY <1>1, <1>2 DEF Inputs
  <2>2. d.history \in Histories /\ d.history # <<>> /\ d.hcurrent = Len(d.history)
    BY <2>1, RecallFacts
  <2>3. h \in Histories
    BY <1>1, <2>2, LastReplaced
  <2>4. CommitHistory(d) = [d EXCEPT !.history = Newest(h)]
    BY <1>2 DEF CommitHistory
  <2> HIDE DEF h
  <2>5. Newest(h) \in Histories
    BY <2>3, NewestFacts
  <2> QED
    BY <1>1, <2>4, <2>5 DEF Inputs
<1>3. CASE ~d.recalls
  BY <1>1, <1>3 DEF CommitHistory
<1> QED
  BY <1>2, <1>3
-----------------------------------------------------------------------------
(* Keys *)

LEMMA DeselectedFacts ==
  ASSUME TextGood(input)
  PROVE  /\ TextGood(Deselected) /\ InSight(Deselected)
         /\ Deselected.value = input.value /\ Deselected.cursor = input.cursor
         /\ Deselected.start = input.start /\ Deselected.open = input.open
         /\ Deselected.recalls = input.recalls /\ Deselected.hlist = input.hlist
         /\ Deselected.hcurrent = input.hcurrent /\ Deselected.history = input.history
         /\ Deselected.before = input.before /\ Deselected.width = input.width
<1> DEFINE no == FALSE
           e == [input EXCEPT !.selected = no]
<1>1. input \in Inputs /\ Placed(input) /\ InSight(input) /\ Talking(input)
  BY DEF TextGood, InSight, Placed
<1>2. no \in BOOLEAN /\ Deselected = e
  BY DEF Deselected
<1> HIDE DEF no
<1>3. e \in Inputs
  BY <1>1, <1>2 DEF Inputs
<1>4. /\ e.value = input.value /\ e.cursor = input.cursor /\ e.start = input.start
      /\ e.open = input.open /\ e.recalls = input.recalls /\ e.hlist = input.hlist
      /\ e.hcurrent = input.hcurrent /\ e.history = input.history /\ e.before = input.before
      /\ e.width = input.width
  BY <1>1 DEF Inputs
<1> HIDE DEF e
<1>5. InSight(e) /\ Talking(e)
  BY <1>1, <1>3, <1>4 DEF InSight, Placed, Column, Talking
<1> QED
  BY <1>2, <1>4, <1>5 DEF TextGood

\* A key that edits the line and leaves the history alone
Edited == InSight(input') /\ SameDialog(input', Deselected)

LEMMA PlaceFacts ==
  ASSUME NEW d, InSight(d)
  PROVE  /\ Placed(d) /\ d \in Inputs /\ d.value \in Lines /\ Len(d.value) \in Nat /\ d.cursor \in Nat
         /\ d.cursor \in 0..Len(d.value) /\ d.start \in Nat /\ d.width > 0
BY InputFields DEF InSight, Placed

LEMMA InsertFacts ==
  ASSUME TextGood(input), NEW c \in Chars, InsertByte(c)
  PROVE  Edited
<1> DEFINE d == IF input.selected THEN Clear(Deselected) ELSE Deselected
           one == <<c>>
           v == SubSeq(d.value, 1, d.cursor) \o one \o SubSeq(d.value, d.cursor + 1, Len(d.value))
           e == [d EXCEPT !.value = v, !.cursor = d.cursor + 1]
<1>1. InSight(d) /\ SameDialog(d, Deselected)
  BY DeselectedFacts, ClearedFacts DEF InSight, SameDialog
<1>2. /\ Len(d.value) < MaxLine
      /\ input' = CursorMovedRight([Edit(d, d.cursor, d.cursor, <<c>>) EXCEPT !.cursor = @ + 1])
  BY DEF InsertByte
<1> HIDE DEF d
<1>3. /\ Placed(d) /\ d \in Inputs /\ d.value \in Lines /\ Len(d.value) \in Nat /\ d.cursor \in Nat
      /\ d.cursor \in 0..Len(d.value) /\ d.start \in Nat /\ d.width > 0
  BY <1>1, PlaceFacts
<1>4. [Edit(d, d.cursor, d.cursor, <<c>>) EXCEPT !.cursor = @ + 1] = e
  BY <1>3 DEF Edit, Inputs
<1>5. one \in Seq(Chars) /\ Len(one) = 1
  OBVIOUS
<1> HIDE DEF one
<1>6. v \in Lines /\ Len(v) = Len(d.value) + 1
  <2>1. /\ d.cursor \in d.cursor..Len(d.value)
        /\ d.cursor + Len(one) + (Len(d.value) - d.cursor) <= MaxLine
    BY <1>2, <1>3, <1>5, TextAssumption
  <2>2. v \in Lines /\ Len(v) = d.cursor + Len(one) + (Len(d.value) - d.cursor)
    BY <1>3, <1>5, <2>1, EditedLine
  <2> HIDE DEF v
  <2> QED
    BY <1>3, <1>5, <2>2
<1> HIDE DEF v
<1>7. e \in Inputs
  <2> DEFINE p == d.cursor + 1
  <2>1. p \in 0..MaxLine
    BY <1>2, <1>3, TextAssumption
  <2> HIDE DEF p
  <2>2. [d EXCEPT !.value = v, !.cursor = p] \in Inputs
    BY <1>3, <1>6, <2>1 DEF Inputs
  <2> QED
    BY <2>2 DEF p
<1>8. e.value = v /\ e.cursor = d.cursor + 1 /\ e.start = d.start /\ e.width = d.width /\ SameDialog(e, d)
  BY <1>3 DEF Inputs, SameDialog
<1> HIDE DEF e
<1>9. Placed(e)
  BY <1>3, <1>6, <1>7, <1>8 DEF Placed
<1>10. InSight(CursorMovedRight(e)) /\ SameDialog(CursorMovedRight(e), e)
  BY <1>9, RightFacts
<1> QED
  BY <1>1, <1>2, <1>4, <1>8, <1>10 DEF Edited, SameDialog

LEMMA MoveFacts ==
  ASSUME NEW d, InSight(d)
  PROVE  /\ \A e \in {MoveCursorLeft(d), MoveCursorWordLeft(d)} :
               InSight(e) /\ SameDialog(e, d) /\ e.value = d.value /\ e.cursor <= d.cursor
         /\ MoveCursorLeft(d).cursor = (IF d.cursor = 0 THEN 0 ELSE d.cursor - 1)
         /\ \A e \in {MoveCursorRight(d), MoveCursorWordRight(d)} : InSight(e) /\ SameDialog(e, d)
<1>1. /\ Placed(d) /\ d \in Inputs /\ d.value \in Lines /\ Len(d.value) \in Nat /\ d.cursor \in Nat
      /\ d.cursor \in 0..Len(d.value) /\ d.start \in Nat /\ d.width > 0
  BY PlaceFacts
<1>2. NextWord(d.value, d.cursor) \in d.cursor..Len(d.value) /\ LastWord(d.value, d.cursor) \in 0..d.cursor
  BY <1>1, WordFacts
<1>3. /\ InSight(MoveCursorLeft(d)) /\ SameDialog(MoveCursorLeft(d), d) /\ MoveCursorLeft(d).value = d.value
      /\ MoveCursorLeft(d).cursor = (IF d.cursor = 0 THEN 0 ELSE d.cursor - 1)
  <2> DEFINE p == IF d.cursor = 0 THEN 0 ELSE d.cursor - 1
  <2>1. p \in 0..d.cursor
    BY <1>1
  <2>2. MoveCursorLeft(d) = CursorMovedLeft([d EXCEPT !.cursor = p])
    BY <1>1 DEF MoveCursorLeft, Inputs
  <2> HIDE DEF p
  <2>3. MoveCursorLeft(d).cursor = p /\ InSight(MoveCursorLeft(d)) /\ SameDialog(MoveCursorLeft(d), d)
        /\ MoveCursorLeft(d).value = d.value
    BY <2>1, <2>2, LeftFacts
  <2> QED
    BY <2>3 DEF p
<1>4. /\ InSight(MoveCursorWordLeft(d)) /\ SameDialog(MoveCursorWordLeft(d), d)
      /\ MoveCursorWordLeft(d).value = d.value /\ MoveCursorWordLeft(d).cursor = LastWord(d.value, d.cursor)
  <2>1. MoveCursorWordLeft(d) = CursorMovedLeft([d EXCEPT !.cursor = LastWord(d.value, d.cursor)])
    BY <1>1 DEF MoveCursorWordLeft, Inputs
  <2> QED
    BY <1>2, <2>1, LeftFacts
<1>5. InSight(MoveCursorRight(d)) /\ SameDialog(MoveCursorRight(d), d)
  <2>1. CASE d.cursor = Len(d.value)
    BY <2>1 DEF MoveCursorRight, SameDialog
  <2>2. CASE d.cursor # Len(d.value)
    <3>1. MoveCursorRight(d) = CursorMovedRight([d EXCEPT !.cursor = d.cursor + 1])
      BY <1>1, <2>2 DEF MoveCursorRight, Inputs
    <3>2. d.cursor + 1 \in d.cursor..Len(d.value)
      BY <1>1, <2>2
    <3> QED
      BY <3>1, <3>2, MovedRightFacts
  <2> QED
    BY <2>1, <2>2
<1>6. InSight(MoveCursorWordRight(d)) /\ SameDialog(MoveCursorWordRight(d), d)
  <2>1. CASE d.cursor = Len(d.value)
    BY <2>1 DEF MoveCursorWordRight, SameDialog
  <2>2. CASE d.cursor # Len(d.value)
    <3>1. MoveCursorWordRight(d) = CursorMovedRight([d EXCEPT !.cursor = NextWord(d.value, d.cursor)])
      BY <1>1, <2>2 DEF MoveCursorWordRight, Inputs
    <3> QED
      BY <1>2, <3>1, MovedRightFacts
  <2> QED
    BY <2>1, <2>2
<1>7. MoveCursorLeft(d).cursor <= d.cursor /\ MoveCursorWordLeft(d).cursor <= d.cursor
  BY <1>1, <1>2, <1>3, <1>4
<1> QED
  BY <1>3, <1>4, <1>5, <1>6, <1>7

LEMMA HomeFacts ==
  ASSUME NEW d, InSight(d)
  PROVE  InSight([d EXCEPT !.cursor = 0, !.start = 0]) /\ SameDialog([d EXCEPT !.cursor = 0, !.start = 0], d)
<1> DEFINE zero == 0
           e == [d EXCEPT !.cursor = zero, !.start = zero]
<1>1. d \in Inputs /\ Len(d.value) \in Nat /\ d.width > 0 /\ d.width \in Nat /\ MaxLine \in Nat
  BY PlaceFacts, InputFields, TextAssumption
<1>2. zero \in 0..MaxLine /\ zero <= zero /\ zero <= Len(d.value) /\ Width(d.value, zero, zero) = 0 /\ zero \in Nat
  BY <1>1, WidthType
<1> HIDE DEF zero
<1>3. e \in Inputs
  BY <1>1, <1>2 DEF Inputs
<1>4. e.value = d.value /\ e.cursor = zero /\ e.start = zero /\ e.width = d.width /\ SameDialog(e, d)
  BY <1>1 DEF Inputs, SameDialog
<1> HIDE DEF e
<1>5. InSight(e)
  BY <1>1, <1>2, <1>3, <1>4 DEF InSight, Placed, Column
<1> QED
  BY <1>4, <1>5 DEF e, zero

LEMMA DeleteToStartFacts ==
  ASSUME NEW d, InSight(d)
  PROVE  LET e == [Edit(d, 0, d.cursor, <<>>) EXCEPT !.cursor = 0, !.start = 0]
         IN  InSight(e) /\ SameDialog(e, d)
<1> DEFINE zero == 0
           none == <<>>
           v == SubSeq(d.value, 1, zero) \o none \o SubSeq(d.value, d.cursor + 1, Len(d.value))
           e == [d EXCEPT !.value = v, !.cursor = zero, !.start = zero]
<1>1. /\ d \in Inputs /\ d.width > 0 /\ d.width \in Nat /\ MaxLine \in Nat
      /\ d.value \in Lines /\ d.cursor \in 0..Len(d.value) /\ Len(d.value) \in 0..MaxLine
  BY PlaceFacts, InputFields, TextAssumption
<1>2. [Edit(d, 0, d.cursor, <<>>) EXCEPT !.cursor = 0, !.start = 0] = e
  BY <1>1 DEF Edit, Inputs
<1>3. none \in Seq(Chars) /\ Len(none) = 0
  OBVIOUS
<1>4. zero \in 0..MaxLine /\ zero \in 0..Len(d.value) /\ d.cursor \in zero..Len(d.value)
      /\ zero + Len(none) + (Len(d.value) - d.cursor) <= MaxLine /\ zero <= zero
  BY <1>1, <1>3
<1> HIDE DEF zero, none
<1>5. v \in Lines
  BY <1>1, <1>3, <1>4, EditedLine
<1> HIDE DEF v
<1>6. e \in Inputs
  BY <1>1, <1>4, <1>5 DEF Inputs
<1>7. e.value = v /\ e.cursor = zero /\ e.start = zero /\ e.width = d.width /\ SameDialog(e, d)
  BY <1>1 DEF Inputs, SameDialog
<1> HIDE DEF e
<1>8. Width(v, zero, zero) = 0 /\ zero <= Len(v)
  BY <1>5, WidthType, LineFacts DEF zero
<1>9. InSight(e)
  BY <1>1, <1>4, <1>6, <1>7, <1>8 DEF InSight, Placed, Column
<1> QED
  BY <1>2, <1>7, <1>9

LEMMA EditKeys ==
  ASSUME TextGood(input),
         MoveKey \/ Backspace \/ DeleteCharKey \/ DeleteWord \/ DeleteToEnd \/ DeleteLastWord \/ DeleteToStart
  PROVE  Edited
<1> DEFINE d == Deselected
<1>1. /\ InSight(d) /\ d.value = input.value /\ d.cursor = input.cursor
  BY DeselectedFacts
<1>2. /\ Placed(d) /\ d \in Inputs /\ d.value \in Lines /\ Len(d.value) \in Nat /\ d.cursor \in Nat
      /\ d.cursor \in 0..Len(d.value) /\ d.start \in Nat /\ d.width > 0
  BY <1>1, PlaceFacts
<1>3. SameDialog(d, d)
  BY DEF SameDialog
<1>4. InSight(Clear(d)) /\ SameDialog(Clear(d), d)
  BY <1>2, ClearedFacts
<1> HIDE DEF d
<1>5. CASE MoveKey
  <2>1. d.start <= Len(d.value)
    BY <1>2 DEF Placed
  <2>2. InSight(MoveCursorToEnd(d)) /\ SameDialog(MoveCursorToEnd(d), d)
    BY <1>2, <2>1, EndFacts
  <2> DEFINE home == [d EXCEPT !.cursor = 0, !.start = 0]
  <2>3. InSight(home) /\ SameDialog(home, d)
    BY <1>1, HomeFacts
  <2>4. \A e \in {MoveCursorLeft(d), MoveCursorRight(d), MoveCursorWordLeft(d), MoveCursorWordRight(d)} :
           InSight(e) /\ SameDialog(e, d)
    BY <1>1, MoveFacts
  <2>5. input' \in {MoveCursorLeft(d), MoveCursorRight(d), MoveCursorWordLeft(d), MoveCursorWordRight(d),
                    home, MoveCursorToEnd(d)}
    BY <1>5 DEF MoveKey, d
  <2> HIDE DEF home
  <2> QED
    BY <2>2, <2>3, <2>4, <2>5 DEF Edited, d
<1>6. CASE Backspace
  <2> DEFINE e == MoveCursorLeft(d)
  <2>1. /\ InSight(e) /\ SameDialog(e, d) /\ e.value = d.value
        /\ e.cursor = (IF d.cursor = 0 THEN 0 ELSE d.cursor - 1)
    BY <1>1, MoveFacts
  <2>2. input' = IF input.selected THEN Clear(d) ELSE IF d.cursor = 0 THEN d
                 ELSE Edit(e, e.cursor, e.cursor + 1, <<>>)
    BY <1>1, <1>6 DEF Backspace, d
  <2> HIDE DEF e
  <2>3. CASE d.cursor # 0
    <3>1. e.cursor + 1 \in e.cursor..Len(e.value)
      BY <1>2, <2>1, <2>3
    <3>2. /\ InSight(Edit(e, e.cursor, e.cursor + 1, <<>>))
          /\ SameDialog(Edit(e, e.cursor, e.cursor + 1, <<>>), e)
      BY <2>1, <3>1, DeletedFacts
    <3>3. SameDialog(Edit(e, e.cursor, e.cursor + 1, <<>>), d)
      BY <2>1, <3>2 DEF SameDialog
    <3> QED
      BY <1>4, <2>2, <2>3, <3>2, <3>3 DEF Edited, d
  <2>4. CASE d.cursor = 0
    BY <1>1, <1>3, <1>4, <2>2, <2>4 DEF Edited, d
  <2> QED
    BY <2>3, <2>4
<1>7. CASE DeleteCharKey
  <2>1. input' = IF input.selected THEN Clear(d) ELSE IF d.cursor = Len(d.value) THEN d
                 ELSE Edit(d, d.cursor, d.cursor + 1, <<>>)
    BY <1>1, <1>7 DEF DeleteCharKey, d
  <2>2. CASE d.cursor # Len(d.value)
    <3>1. d.cursor + 1 \in d.cursor..Len(d.value)
      BY <1>2, <2>2
    <3>2. /\ InSight(Edit(d, d.cursor, d.cursor + 1, <<>>))
          /\ SameDialog(Edit(d, d.cursor, d.cursor + 1, <<>>), d)
      BY <1>1, <3>1, DeletedFacts
    <3> QED
      BY <1>4, <2>1, <2>2, <3>2 DEF Edited, d
  <2>3. CASE d.cursor = Len(d.value)
    BY <1>1, <1>3, <1>4, <2>1, <2>3 DEF Edited, d
  <2> QED
    BY <2>2, <2>3
<1>8. CASE DeleteWord
  <2>1. input' = Edit(d, d.cursor, NextWord(d.value, d.cursor), <<>>)
    BY <1>1, <1>8 DEF DeleteWord, d
  <2>2. NextWord(d.value, d.cursor) \in d.cursor..Len(d.value)
    BY <1>2, WordFacts
  <2> QED
    BY <1>1, <2>1, <2>2, DeletedFacts DEF Edited, d
<1>9. CASE DeleteToEnd
  <2>1. input' = IF input.selected THEN Clear(d) ELSE Edit(d, d.cursor, Len(d.value), <<>>)
    BY <1>1, <1>9 DEF DeleteToEnd, d
  <2>2. Len(d.value) \in d.cursor..Len(d.value)
    BY <1>2
  <2>3. InSight(Edit(d, d.cursor, Len(d.value), <<>>)) /\ SameDialog(Edit(d, d.cursor, Len(d.value), <<>>), d)
    BY <1>1, <2>2, DeletedFacts
  <2> QED
    BY <1>4, <2>1, <2>3 DEF Edited, d
<1>10. CASE DeleteLastWord
  <2> DEFINE e == MoveCursorWordLeft(d)
  <2>1. InSight(e) /\ SameDialog(e, d) /\ e.value = d.value /\ e.cursor <= d.cursor
    BY <1>1, MoveFacts
  <2>2. input' = Edit(e, e.cursor, d.cursor, <<>>)
    BY <1>1, <1>10 DEF DeleteLastWord, d
  <2> HIDE DEF e
  <2>3. e.cursor \in Nat
    BY <2>1, PlaceFacts
  <2>4. d.cursor \in e.cursor..Len(e.value)
    BY <1>2, <2>1, <2>3
  <2>5. InSight(input') /\ SameDialog(input', e)
    BY <2>1, <2>2, <2>4, DeletedFacts
  <2> QED
    BY <2>1, <2>5 DEF Edited, SameDialog, d
<1>11. CASE DeleteToStart
  <2>1. input' = [Edit(d, 0, d.cursor, <<>>) EXCEPT !.cursor = 0, !.start = 0]
    BY <1>1, <1>11 DEF DeleteToStart, d
  <2> QED
    BY <1>1, <2>1, DeleteToStartFacts DEF Edited, d
<1> QED
  BY <1>5, <1>6, <1>7, <1>8, <1>9, <1>10, <1>11

\* What a key leaves when it only edits
LEMMA EditedGood ==
  ASSUME TextGood(input), input.open, Edited
  PROVE  /\ TextGood(input') /\ input'.hlist = input.hlist
<1>1. /\ Deselected.open = input.open /\ Deselected.recalls = input.recalls /\ Deselected.hlist = input.hlist
      /\ Deselected.hcurrent = input.hcurrent /\ Deselected.history = input.history
      /\ Deselected.before = input.before /\ Deselected.open = input.open
  BY DeselectedFacts
<1>2. Talking(input)
  BY DEF TextGood
<1> QED
  BY <1>1, <1>2 DEF Edited, SameDialog, TextGood, Talking

\* The history is gone through: the line of this dialog is kept where it is found again.
LEMMA HistoryUpFacts ==
  ASSUME TextGood(input), input.open, HistoryUp
  PROVE  /\ TextGood(input')
         /\ input.recalls /\ input.hlist = input.hcurrent /\ input'.hlist < input.hlist
              => input'.history[input.hcurrent] = input.value
<1> DEFINE d == Deselected
<1>1. /\ TextGood(d) /\ InSight(d) /\ d.value = input.value /\ d.open = input.open
      /\ d.recalls = input.recalls /\ d.hlist = input.hlist /\ d.hcurrent = input.hcurrent
      /\ d.history = input.history
  BY DeselectedFacts
<1>2. /\ Placed(d) /\ d \in Inputs /\ d.value \in Lines /\ Len(d.value) \in Nat /\ d.width > 0
      /\ d.start <= Len(d.value) /\ d.cursor \in 0..Len(d.value) /\ MaxLine \in Nat
  BY <1>1, PlaceFacts, TextAssumption DEF Placed
<1>3. input' = MoveCursorToEnd(IF ~d.recalls \/ d.hlist = 1 THEN d
                 ELSE [(IF d.hlist = d.hcurrent THEN [d EXCEPT !.history[d.hlist] = d.value] ELSE d)
                         EXCEPT !.hlist = @ - 1, !.start = 0, !.value = d.history[d.hlist - 1]])
  BY Zenon DEF HistoryUp
<1>4. input.open
  OBVIOUS
<1> HIDE DEF d
<1>5. CASE ~d.recalls \/ d.hlist = 1
  <2>1. InSight(input') /\ SameDialog(input', d)
    BY <1>2, <1>3, <1>5, EndFacts
  <2>2. TextGood(input') /\ input'.hlist = d.hlist
    BY <1>1, <2>1 DEF TextGood, Talking, SameDialog
  <2>3. d.hlist \in Nat
    BY <1>2, InputFields
  <2> QED
    BY <1>1, <2>2, <2>3
<1>6. CASE d.recalls /\ d.hlist # 1
  <2>0. d.recalls = TRUE
    BY <1>2, <1>6 DEF Inputs
  <2>1. /\ d.history \in Histories /\ d.history # <<>> /\ d.hcurrent = Len(d.history)
        /\ d.hcurrent \in 1..HistoryBound /\ d.hlist \in 1..d.hcurrent
        /\ \A i \in 1..d.hcurrent : d.history[i] \in Lines
        /\ d.before = Front1(d.history) /\ d.open
    BY <1>1, <2>0, RecallFacts
  <2> DEFINE h == IF d.hlist = d.hcurrent THEN [d.history EXCEPT ![d.hcurrent] = d.value] ELSE d.history
             n == d.hlist - 1
             l == d.history[d.hlist - 1]
             zero == 0
             e == [d EXCEPT !.history = h, !.hlist = n, !.start = zero, !.value = l]
  <2>2. h \in Histories /\ Len(h) = d.hcurrent /\ Front1(h) = d.before
    BY <1>2, <2>1, LastReplaced
  <2>3. n \in Nat /\ n \in 1..d.hcurrent /\ n < d.hlist /\ l \in Lines /\ zero \in 0..MaxLine /\ zero <= Len(l)
    <3>1. n \in Nat /\ n \in 1..d.hcurrent /\ n < d.hlist
      BY <1>6, <2>1
    <3>2. l \in Lines
      BY <2>1, <3>1
    <3>3. Len(l) \in Nat
      BY <3>2, LineFacts
    <3> QED
      BY <1>2, <3>1, <3>2, <3>3
  <2>4. input' = MoveCursorToEnd(e)
    BY <1>2, <1>3, <1>6 DEF Inputs
  <2>5. d.hlist = d.hcurrent => h[d.hcurrent] = d.value
    <3>1. d.hcurrent \in DOMAIN d.history
      BY <2>1, HistoryFacts
    <3> QED
      BY <3>1
  <2> HIDE DEF h, n, l, zero
  <2>6. e \in Inputs
    BY <1>2, <2>2, <2>3 DEF Inputs
  <2>7. /\ e.history = h /\ e.hlist = n /\ e.start = zero /\ e.value = l /\ e.open = d.open /\ e.width = d.width
        /\ e.recalls = d.recalls /\ e.hcurrent = d.hcurrent /\ e.before = d.before
    BY <1>2 DEF Inputs
  <2> HIDE DEF e
  <2>8. InSight(input') /\ SameDialog(input', e)
    BY <1>2, <2>3, <2>4, <2>6, <2>7, EndFacts
  <2>9. Talking(input')
    BY <1>1, <2>1, <2>2, <2>3, <2>7, <2>8 DEF Talking, SameDialog
  <2> QED
    BY <1>1, <2>5, <2>7, <2>8, <2>9 DEF TextGood, SameDialog
<1> QED
  BY <1>5, <1>6

LEMMA HistoryDownFacts ==
  ASSUME TextGood(input), input.open, HistoryDown
  PROVE  TextGood(input') /\ (input.recalls => input'.hlist >= input.hlist)
<1> DEFINE d == Deselected
<1>1. /\ TextGood(d) /\ InSight(d) /\ d.value = input.value /\ d.open = input.open
      /\ d.recalls = input.recalls /\ d.hlist = input.hlist
  BY DeselectedFacts
<1>2. /\ Placed(d) /\ d \in Inputs /\ d.value \in Lines /\ Len(d.value) \in Nat /\ d.width > 0
      /\ d.start <= Len(d.value) /\ d.cursor \in 0..Len(d.value) /\ MaxLine \in Nat /\ d.hlist \in Nat
  BY <1>1, PlaceFacts, InputFields, TextAssumption DEF Placed
<1>3. input' = MoveCursorToEnd(IF ~d.recalls \/ d.hlist = Len(d.history) THEN d
                 ELSE [d EXCEPT !.hlist = @ + 1, !.start = 0, !.value = d.history[d.hlist + 1]])
  BY Zenon DEF HistoryDown
<1> HIDE DEF d
<1>5. CASE ~d.recalls \/ d.hlist = Len(d.history)
  <2>1. InSight(input') /\ SameDialog(input', d)
    BY <1>2, <1>3, <1>5, EndFacts
  <2>2. TextGood(input') /\ input'.hlist = d.hlist
    BY <1>1, <2>1 DEF TextGood, Talking, SameDialog
  <2> QED
    BY <1>1, <1>2, <2>2
<1>6. CASE d.recalls /\ d.hlist # Len(d.history)
  <2>0. d.recalls = TRUE
    BY <1>2, <1>6 DEF Inputs
  <2>1. /\ d.hcurrent = Len(d.history)
        /\ d.hcurrent \in 1..HistoryBound /\ d.hlist \in 1..d.hcurrent
        /\ \A i \in 1..d.hcurrent : d.history[i] \in Lines
    BY <1>1, <2>0, RecallFacts
  <2> DEFINE n == d.hlist + 1
             l == d.history[d.hlist + 1]
             zero == 0
             e == [d EXCEPT !.hlist = n, !.start = zero, !.value = l]
  <2>3. n \in Nat /\ n \in 1..d.hcurrent /\ n >= d.hlist /\ l \in Lines /\ zero \in 0..MaxLine /\ zero <= Len(l)
    <3>1. n \in Nat /\ n \in 1..d.hcurrent /\ n >= d.hlist
      BY <1>6, <2>1
    <3>2. l \in Lines
      BY <2>1, <3>1
    <3>3. Len(l) \in Nat
      BY <3>2, LineFacts
    <3> QED
      BY <1>2, <3>1, <3>2, <3>3
  <2>4. input' = MoveCursorToEnd(e)
    BY <1>2, <1>3, <1>6 DEF Inputs
  <2> HIDE DEF n, l, zero
  <2>6. e \in Inputs
    BY <1>2, <2>3 DEF Inputs
  <2>7. /\ e.history = d.history /\ e.hlist = n /\ e.start = zero /\ e.value = l /\ e.open = d.open
        /\ e.width = d.width /\ e.recalls = d.recalls /\ e.hcurrent = d.hcurrent /\ e.before = d.before
    BY <1>2 DEF Inputs
  <2> HIDE DEF e
  <2>8. InSight(input') /\ SameDialog(input', e)
    BY <1>2, <2>3, <2>4, <2>6, <2>7, EndFacts
  <2>9. Talking(input')
    BY <1>1, <2>1, <2>3, <2>7, <2>8 DEF Talking, TextGood, SameDialog
  <2> QED
    BY <1>1, <2>3, <2>7, <2>8, <2>9 DEF TextGood, SameDialog
<1> QED
  BY <1>5, <1>6

\* What is completed only becomes longer.
LEMMA TabFacts ==
  ASSUME TextGood(input), Tab
  PROVE  Edited
<1> DEFINE d == Deselected
<1>1. InSight(d) /\ d.value = input.value
  BY DeselectedFacts
<1>2. /\ Placed(d) /\ d \in Inputs /\ d.value \in Lines /\ Len(d.value) \in Nat /\ d.width > 0
      /\ d.start \in Nat /\ d.start <= Len(d.value)
  BY <1>1, PlaceFacts DEF Placed
<1>3. PICK list \in SUBSET SampleLines :
         input' = IF Complete(list, d.value) = <<>> THEN d
                  ELSE MoveCursorToEnd([d EXCEPT !.value = Complete(list, d.value)])
  BY <1>1 DEF Tab
<1> HIDE DEF d
<1> DEFINE new == Complete(list, d.value)
           e == [d EXCEPT !.value = new]
<1>4. new \in Lines /\ (new # <<>> => StartsWith(new, d.value))
  BY <1>2, CompletionFacts
<1> HIDE DEF new
<1>5. CASE new = <<>>
  BY <1>1, <1>3, <1>5 DEF Edited, SameDialog, d, new
<1>6. CASE new # <<>>
  <2>1. Len(d.value) <= Len(new) /\ Len(new) \in Nat
    BY <1>2, <1>4, <1>6, LineFacts DEF StartsWith
  <2>2. e \in Inputs
    BY <1>2, <1>4 DEF Inputs
  <2>3. e.value = new /\ e.start = d.start /\ e.width = d.width /\ SameDialog(e, d)
    BY <1>2 DEF Inputs, SameDialog
  <2>4. input' = MoveCursorToEnd(e)
    BY <1>3, <1>6 DEF new
  <2> HIDE DEF e
  <2>5. e.start <= Len(e.value) /\ e.width > 0
    BY <1>2, <2>1, <2>3
  <2>6. InSight(input') /\ SameDialog(input', e)
    BY <2>2, <2>4, <2>5, EndFacts
  <2> QED
    BY <2>3, <2>6 DEF Edited, SameDialog, d
<1> QED
  BY <1>5, <1>6

LEMMA ResizeFacts ==
  ASSUME TextGood(input), ResizeDialog
  PROVE  TextGood(input') /\ input'.hlist = input.hlist
<1>1. InSight(input) /\ Talking(input) /\ Placed(input) /\ input \in Inputs
  BY DEF TextGood, InSight, Placed
<1>2. PICK w \in WindowWidths :
         input' = IF input.open THEN CursorMovedRight([input EXCEPT !.width = FieldWidth(w)])
                  ELSE [input EXCEPT !.width = FieldWidth(w)]
  BY DEF ResizeDialog
<1>3. FieldWidth(w) \in Nat /\ FieldWidth(w) > 0
  BY TextAssumption DEF FieldWidth
<1> DEFINE f == FieldWidth(w)
           e == [input EXCEPT !.width = f]
<1> HIDE DEF f
<1>4. e \in Inputs
  BY <1>1, <1>3 DEF Inputs, f
<1>5. /\ e.open = input.open /\ e.value = input.value /\ e.cursor = input.cursor /\ e.start = input.start
      /\ e.recalls = input.recalls /\ e.hlist = input.hlist /\ e.hcurrent = input.hcurrent
      /\ e.history = input.history /\ e.before = input.before /\ e.width = f
  BY <1>1 DEF Inputs
<1>6. input' = IF input.open THEN CursorMovedRight(e) ELSE e
  BY <1>2 DEF f
<1> HIDE DEF e
<1>7. Placed(e) /\ Talking(e)
  BY <1>1, <1>3, <1>4, <1>5 DEF Placed, Talking, f
<1>8. CASE input.open
  <2>1. InSight(input') /\ SameDialog(input', e)
    BY <1>6, <1>7, <1>8, RightFacts
  <2> QED
    BY <1>5, <1>7, <1>8, <2>1 DEF TextGood, Talking, SameDialog
<1>9. CASE ~input.open
  <2>1. input' = e /\ e.start = 0 /\ e.cursor = 0
    BY <1>1, <1>5, <1>6, <1>9 DEF Talking
  <2>2. e.value \in Seq(Chars) /\ e.width \in Nat /\ e.width > 0
    BY <1>4, <1>7, InputFields DEF Placed
  <2>3. InSight(e)
    <3> DEFINE zero == 0
    <3>1. e.start = zero /\ e.cursor = zero /\ zero \in Nat /\ zero <= zero
      BY <2>1
    <3> HIDE DEF zero
    <3>2. Width(e.value, zero, zero) = 0
      BY <3>1, WidthType
    <3>3. Column(e) = 0
      BY <3>1, <3>2 DEF Column
    <3> QED
      BY <1>7, <2>2, <3>3 DEF InSight
  <2> QED
    BY <1>5, <1>7, <2>1, <2>3 DEF TextGood
<1> QED
  BY <1>8, <1>9

\* A step
LEMMA TextStep ==
  ASSUME TextGood(input), TextNext
  PROVE  /\ TextGood(input')
         /\ input.open /\ input.recalls /\ input.hlist = input.hcurrent /\ input'.recalls
              /\ input'.hlist < input.hlist => input'.history[input.hcurrent] = input.value
<1>1. input \in Inputs /\ input.width > 0 /\ input.hlist \in Nat
  BY InputFields DEF TextGood, InSight, Placed
<1>2. CASE Key
  <2>1. input.open
    BY <1>2 DEF Key
  <2>2. CASE HistoryUp
    BY <2>1, <2>2, HistoryUpFacts
  <2>3. CASE HistoryDown
    <3>1. TextGood(input') /\ (input.recalls => input'.hlist >= input.hlist)
      BY <2>1, <2>3, HistoryDownFacts
    <3>2. input'.hlist \in Nat
      BY <3>1, InputFields DEF TextGood, InSight, Placed
    <3> QED
      BY <1>1, <3>1, <3>2
  <2>4. ASSUME Edited
        PROVE  TextGood(input') /\ ~(input'.hlist < input.hlist)
    BY <1>1, <2>1, <2>4, EditedGood
  <2>5. CASE \E c \in Chars : InsertByte(c)
    BY <2>4, <2>5, InsertFacts
  <2>6. CASE MoveKey \/ Backspace \/ DeleteCharKey \/ DeleteWord \/ DeleteToEnd \/ DeleteLastWord \/ DeleteToStart
    BY <2>4, <2>6, EditKeys
  <2>7. CASE Tab
    BY <2>4, <2>7, TabFacts
  <2>8. CASE OtherKey
    BY <2>4, <2>8, DeselectedFacts DEF OtherKey, Edited, SameDialog
  <2> QED
    BY <1>2, <2>2, <2>3, <2>4, <2>5, <2>6, <2>7, <2>8 DEF Key
<1>3. CASE input.open /\ Enter
  <2>1. TextGood(OnCancel(input)) /\ ~OnCancel(input).recalls
    BY CancelFacts
  <2>2. TextGood(Over(CommitHistory(input)))
    BY CommitFacts
  <2>3. ~Over(CommitHistory(input)).recalls
    <3>1. CommitHistory(input) \in Inputs /\ CommitHistory(input).width > 0
      BY CommittedIsInput
    <3> QED
      BY <3>1, OverFacts
  <2> QED
    BY <1>3, <2>1, <2>2, <2>3 DEF Enter
<1>4. CASE input.open /\ CancelKey
  BY <1>4, CancelFacts DEF CancelKey
<1>5. CASE Find
  <2>1. PICK show \in BOOLEAN :
           /\ Len(input.history) < HistoryBound
           /\ input' = OpenDialog(input, IF show /\ input.history # <<>> THEN input.history[Len(input.history)] ELSE <<>>,
                                  TRUE, FALSE)
    BY <1>5 DEF Find
  <2> DEFINE line == IF show /\ input.history # <<>> THEN input.history[Len(input.history)] ELSE <<>>
             yes == TRUE
             no == FALSE
  <2>2. line \in Lines
    <3>1. input.history \in Seq(Lines)
      BY <1>1, InputFields, HistoryFacts
    <3>2. input.history # <<>> => input.history[Len(input.history)] \in Lines
      BY <3>1
    <3> QED
      BY <3>2, EmptyLine
  <2>3. yes \in BOOLEAN /\ no \in BOOLEAN /\ yes /\ ~no
    OBVIOUS
  <2>4. input' = OpenDialog(input, line, yes, no)
    BY <2>1
  <2> HIDE DEF line, yes, no
  <2>5. /\ TextGood(input') /\ (input.recalls => input'.hlist = input.hcurrent)
    BY <2>1, <2>2, <2>3, <2>4, OpenFacts, ZenonT(60)
  <2> QED
    BY <1>1, <2>5
<1>6. CASE EditOrJump
  <2>1. \A l \in Lines, fragile \in BOOLEAN :
           /\ TextGood(OpenDialog(input, l, FALSE, fragile))
           /\ ~OpenDialog(input, l, FALSE, fragile).recalls
    <3> SUFFICES ASSUME NEW l \in Lines, NEW fragile \in BOOLEAN
                 PROVE  /\ TextGood(OpenDialog(input, l, FALSE, fragile))
                        /\ ~OpenDialog(input, l, FALSE, fragile).recalls
      OBVIOUS
    <3> DEFINE no == FALSE
    <3>1. no \in BOOLEAN /\ ~no
      OBVIOUS
    <3> HIDE DEF no
    <3>2. TextGood(OpenDialog(input, l, no, fragile)) /\ ~OpenDialog(input, l, no, fragile).recalls
      BY <3>1, OpenFacts
    <3> QED
      BY <3>2 DEF no
  <2>2. \E l \in Lines, fragile \in BOOLEAN : input' = OpenDialog(input, l, FALSE, fragile)
    <3>1. CASE \E line \in SampleLines : input' = OpenDialog(input, line, FALSE, FALSE)
      BY <3>1, SampleAssumption, Zenon
    <3>2. CASE input' = OpenDialog(input, <<>>, FALSE, TRUE)
      BY <3>2, EmptyLine, Zenon
    <3> QED
      BY <1>6, <3>1, <3>2, Zenon DEF EditOrJump
  <2> QED
    BY <2>1, <2>2, Zenon
<1>7. CASE DestroyDialog
  BY <1>1, <1>7, OverFacts DEF DestroyDialog
<1>8. CASE ResizeDialog
  BY <1>1, <1>8, ResizeFacts
<1> QED
  BY <1>2, <1>3, <1>4, <1>5, <1>6, <1>7, <1>8 DEF TextNext

\* What the end of a dialog leaves in the history
LEMMA EndStep ==
  ASSUME TextGood(input), input.open, input.recalls, Enter \/ CancelKey
  PROVE  IF Enter /\ ~input.fragile /\ input.value # <<>>
         THEN input'.history = Newest(Append(input.before, input.value))
         ELSE input'.history \in {input.before, Newest(input.before)}
<1>1. OnCancel(input).history = input.before
  BY CancelFacts
<1>2. Over(CommitHistory(input)).history =
         Newest(IF input.value # <<>> THEN Append(input.before, input.value) ELSE input.before)
  BY CommitFacts
<1>3. CASE Enter /\ ~input.fragile
  <2>1. input'.history = Newest(IF input.value # <<>> THEN Append(input.before, input.value) ELSE input.before)
    BY <1>2, <1>3 DEF Enter
  <2> QED
    BY <1>3, <2>1
<1>4. CASE Enter /\ input.fragile
  <2>1. input'.history = input.before
    BY <1>1, <1>4 DEF Enter
  <2> QED
    BY <1>4, <2>1
<1>5. CASE CancelKey /\ ~Enter
  <2>1. input'.history = input.before
    BY <1>1, <1>5 DEF CancelKey
  <2> QED
    BY <1>5, <2>1
<1> QED
  BY <1>3, <1>4, <1>5

\* The text dialog keeps its promises: the line in view, the history with what has been entered,
\* and completions that are as long as they can be.
THEOREM LineAndHistoryAreKept == TextSpec => LineAndHistoryKept
<1> DEFINE Good == TextGood(input)
<1>1. TextInit => Good
  <2> SUFFICES ASSUME NEW w \in WindowWidths,
                      input = [open |-> FALSE, value |-> <<>>, cursor |-> 0, start |-> 0, selected |-> FALSE,
                               width |-> FieldWidth(w), recalls |-> FALSE, fragile |-> FALSE, hlist |-> 0,
                               hcurrent |-> 0, history |-> <<>>, before |-> <<>>]
               PROVE  TextGood(input)
    BY DEF TextInit
  <2> DEFINE none == <<>>
             zero == 0
  <2>1. FieldWidth(w) \in Nat /\ FieldWidth(w) > 0
    BY TextAssumption DEF FieldWidth
  <2>2. none \in Lines /\ Len(none) = 0
    BY EmptyLine
  <2>3. none \in Histories
    <3>1. none \in Seq(Lines) /\ Len(none) <= HistoryBound
      BY TextAssumption
    <3> HIDE DEF none
    <3> QED
      BY <3>1, HistoryFacts
  <2>4. zero \in 0..MaxLine /\ zero \in Nat /\ zero <= zero /\ zero <= Len(none) /\ Width(none, zero, zero) = 0
    BY TextAssumption, WidthType
  <2>5. input = [open |-> FALSE, value |-> none, cursor |-> zero, start |-> zero, selected |-> FALSE,
                 width |-> FieldWidth(w), recalls |-> FALSE, fragile |-> FALSE, hlist |-> zero,
                 hcurrent |-> zero, history |-> none, before |-> none]
    OBVIOUS
  <2> HIDE DEF none
  <2>6. input \in Inputs
    <3> HIDE DEF zero
    <3> QED
      BY <2>1, <2>2, <2>3, <2>4, <2>5 DEF Inputs
  <2>7. /\ input.open = FALSE /\ input.recalls = FALSE /\ input.value = none /\ input.cursor = zero
        /\ input.start = zero /\ input.width = FieldWidth(w)
    BY <2>5
  <2> QED
    BY <2>1, <2>4, <2>6, <2>7 DEF TextGood, Talking, InSight, Placed, Column, zero
<1>2. Good /\ [TextNext]_input => Good'
  <2>1. ASSUME Good, TextNext PROVE Good'
    BY <2>1, TextStep
  <2> QED
    BY <2>1 DEF TextGood, Talking, InSight, Placed, Column
<1>3. Good => TextTypeOK /\ CursorInView /\ HistoryKept
  BY DEF TextGood, Talking, InSight, Placed, TextTypeOK, CursorInView, HistoryKept
<1>4. LongestCompletion
  BY CompletionFacts DEF LongestCompletion
<1>5. Good /\ [TextNext]_input =>
        [input.open /\ input.recalls /\ (Enter \/ CancelKey) =>
           IF Enter /\ ~input.fragile /\ input.value # <<>>
           THEN input'.history = Newest(Append(input.before, input.value))
           ELSE input'.history \in {input.before, Newest(input.before)}]_input
  BY EndStep
<1>6. Good /\ [TextNext]_input =>
        [input.open /\ input.recalls /\ input.hlist = input.hcurrent /\ input'.recalls
           /\ input'.hlist < input.hlist => input'.history[input.hcurrent] = input.value]_input
  BY TextStep
<1> HIDE DEF Good
<1> QED
  BY <1>1, <1>2, <1>3, <1>4, <1>5, <1>6, PTL
     DEF TextSpec, LineAndHistoryKept, HistoryOfLines, DraftKept

-----------------------------------------------------------------------------
(* Key names and the file *)

\* KeysTypeOK with the files spelled out
Files == UNION {[cs -> Seq(KeyNames)] : cs \in SUBSET Commands}
KeyedAll == Keyed(Files)

LEMMA NameIsOne ==
  ASSUME NEW n \in 0..511
  PROVE  /\ <<"F", n>> \in KeyNames
         /\ <<"Ctrl-", n>> \in KeyNames
         /\ <<"Alt-", n>> \in KeyNames
         /\ <<"'", n>> \in KeyNames
         /\ <<"", n>> \in KeyNames
BY ZenonT(60) DEF KeyNames

\* The keys whose name is read as them: not Ctrl-?, and not Alt- with a character below @
Nameable(k) == k # 127 /\ ~(Meta /\ k \in 160..191)

\* A key's name is read as that key, or it is rejected.
LEMMA NameFacts ==
  ASSUME NEW k \in 1..511
  PROVE  /\ GetKeyName(k) \in KeyNames
         /\ ParseKeyName(GetKeyName(k)) \in {k, -1}
         /\ Nameable(k) => ParseKeyName(GetKeyName(k)) = k
<1>1. CASE IsFKey(k)
  <2> DEFINE n == k - KeyF0
  <2>1. GetKeyName(k) = <<"F", n>>
    BY <1>1 DEF GetKeyName
  <2>2. n \in 0..511 /\ n < 64 /\ KeyF0 + n = k
    BY <1>1 DEF IsFKey, KeyF0
  <2> HIDE DEF n
  <2>3. ParseKeyName(<<"F", n>>) = k
    BY <2>2 DEF ParseKeyName, KeyF0
  <2>4. ParseKeyName(GetKeyName(k)) = k
    BY <2>1, <2>3, Zenon
  <2>5. GetKeyName(k) \in KeyNames
    <3>1. n \in 0..511
      BY <2>2
    <3> QED
      BY <2>1, <3>1, NameIsOne, Zenon
  <2> QED
    BY <2>2, <2>4, <2>5 DEF Nameable
<1>2. CASE ~IsFKey(k) /\ CtrlOf(k) # 0
  <2> DEFINE n == CtrlOf(k)
  <2>1. GetKeyName(k) = <<"Ctrl-", n>>
    BY <1>2 DEF GetKeyName
  <2>2. n \in 0..511 /\ IF k < 32 THEN n = k + 64 ELSE k = 127 /\ n = 63
    BY <1>2 DEF CtrlOf
  <2> HIDE DEF n
  <2>3. ParseKeyName(<<"Ctrl-", n>>) = IF k < 32 THEN k ELSE -1
    BY <2>2 DEF ParseKeyName, KeyF0
  <2>4. ParseKeyName(GetKeyName(k)) = IF k < 32 THEN k ELSE -1
    BY <2>1, <2>3, Zenon
  <2>5. GetKeyName(k) \in KeyNames
    <3>1. n \in 0..511
      BY <2>2
    <3> QED
      BY <2>1, <3>1, NameIsOne, Zenon
  <2> QED
    BY <2>2, <2>4, <2>5 DEF Nameable
<1>3. CASE ~IsFKey(k) /\ CtrlOf(k) = 0 /\ AltOf(k) # 0
  <2> DEFINE n == AltOf(k)
  <2>1. GetKeyName(k) = <<"Alt-", n>>
    BY <1>3 DEF GetKeyName
  <2>2. n \in 0..511 /\ Meta /\ k \in 160..254 /\ n = k - 128
    BY <1>3 DEF AltOf
  <2> HIDE DEF n
  <2>3. ParseKeyName(<<"Alt-", n>>) = IF k < 192 THEN -1 ELSE k
    BY <2>2 DEF ParseKeyName, KeyF0
  <2>4. ParseKeyName(GetKeyName(k)) = IF k < 192 THEN -1 ELSE k
    BY <2>1, <2>3, Zenon
  <2>5. GetKeyName(k) \in KeyNames
    <3>1. n \in 0..511
      BY <2>2
    <3> QED
      BY <2>1, <3>1, NameIsOne, Zenon
  <2> QED
    BY <2>2, <2>4, <2>5 DEF Nameable
<1>4. CASE ~IsFKey(k) /\ CtrlOf(k) = 0 /\ AltOf(k) = 0
  <2>1. CASE IsAlphaNumeric(k)
    <3>1. GetKeyName(k) = <<"'", k>>
      BY <1>4, <2>1 DEF GetKeyName
    <3>2. ParseKeyName(<<"'", k>>) = k
      BY DEF ParseKeyName
    <3>3. ParseKeyName(GetKeyName(k)) = k /\ GetKeyName(k) \in KeyNames
      <4>1. k \in 0..511
        OBVIOUS
      <4> QED
        BY <3>1, <3>2, <4>1, NameIsOne, Zenon
    <3> QED
      BY <3>3
  <2>2. CASE ~IsAlphaNumeric(k)
    <3>1. GetKeyName(k) = <<"", k>>
      BY <1>4, <2>2 DEF GetKeyName
    <3>2. ParseKeyName(<<"", k>>) = k
      BY DEF ParseKeyName
    <3>3. ParseKeyName(GetKeyName(k)) = k /\ GetKeyName(k) \in KeyNames
      <4>1. k \in 0..511
        OBVIOUS
      <4> QED
        BY <3>1, <3>2, <4>1, NameIsOne, Zenon
    <3> QED
      BY <3>3
  <2> QED
    BY <2>1, <2>2
<1> QED
  BY <1>1, <1>2, <1>3, <1>4

\* The keys of a command are at the beginning of its array.
Packed(keys) == \A i, j \in Slots : i < j /\ keys[i] = 0 => keys[j] = 0

\* Bindings are packed, and what has not been modified is the default.
SoundBindings(bs) ==
  /\ bs \in Bindings
  /\ \A c \in Commands : Packed(bs[c].keys) /\ (~bs[c].modified => bs[c].keys = Padded(Defaults[c]))

\* What is in the file are names of keys.
SoundFile(file) ==
  /\ DOMAIN file \subseteq Commands /\ file = [c \in DOMAIN file |-> file[c]]
  /\ \A c \in DOMAIN file : file[c] \in Seq({GetKeyName(k) : k \in Keys})

LEMMA KeysAre == Keys \subseteq 1..511 /\ 0 \notin Keys /\ -1 \notin Keys /\ MaxKeys \in Nat /\ MaxKeys > 0 /\ Slots = 1..MaxKeys
BY KeysAssumption DEF Slots

\* The keys of a command are those before the first slot without one.
LEMMA CountFacts ==
  ASSUME NEW b \in Binding, Packed(b.keys)
  PROVE  /\ GetKeyCount(b) \in 0..MaxKeys
         /\ \A i \in Slots : b.keys[i] # 0 <=> i <= GetKeyCount(b)
<1>1. b.keys \in [Slots -> Keys \cup {0}]
  BY DEF Binding
<1>2. CASE HasKey(b, 0)
  <2> DEFINE S == {i \in Slots : b.keys[i] = 0}
             First(i) == b.keys[i] = 0 /\ \A j \in 1..i - 1 : b.keys[j] # 0
             m == CHOOSE i \in Slots : First(i)
  <2>1. PICK n \in S : \A k \in 0..n - 1 : k \notin S
    <3>1. S \in SUBSET Nat /\ S # {}
      BY <1>2, KeysAre DEF HasKey
    <3> HIDE DEF S
    <3> QED
      BY <3>1, LeastNumber
  <2>2. \E i \in Slots : First(i)
    <3>1. First(n)
      BY <2>1, KeysAre
    <3> QED
      BY <2>1, <3>1
  <2>3. m \in Slots /\ First(m)
    <3> HIDE DEF First
    <3> QED
      BY <2>2
  <2>4. GetKeyCount(b) = m - 1
    BY <1>2 DEF GetKeyCount
  <2> HIDE DEF m
  <2>5. m - 1 \in 0..MaxKeys
    BY <2>3, KeysAre
  <2>6. \A i \in Slots : b.keys[i] # 0 <=> i <= m - 1
    BY <2>3, KeysAre DEF Packed
  <2> QED
    BY <2>4, <2>5, <2>6
<1>3. CASE ~HasKey(b, 0)
  BY <1>3, KeysAre DEF HasKey, GetKeyCount
<1> QED
  BY <1>2, <1>3

\* The command that has a key is found, if there is one.
LEMMA FindFacts ==
  ASSUME NEW bs, NEW k
  PROVE  /\ FindKey(bs, k) = NoKeys <=> \A c \in Commands : ~HasKey(bs[c], k)
         /\ FindKey(bs, k) # NoKeys => FindKey(bs, k) \in Commands /\ HasKey(bs[FindKey(bs, k)], k)
<1> DEFINE having == {i \in DOMAIN CommandSeq : HasKey(bs[CommandSeq[i]], k)}
           m == CHOOSE i \in having : \A j \in having : i <= j
<1>1. having \in SUBSET Nat /\ Commands = {CommandSeq[i] : i \in DOMAIN CommandSeq} /\ NoKeys \notin Commands
  BY KeysAssumption, NoKeysAssumption DEF Commands
<1>2. CASE having = {}
  BY <1>1, <1>2 DEF FindKey
<1>3. CASE having # {}
  <2>1. PICK n \in having : \A j \in 0..n - 1 : j \notin having
    <3> HIDE DEF having
    <3> QED
      BY <1>1, <1>3, LeastNumber
  <2>2. \E i \in having : \A j \in having : i <= j
    <3> HIDE DEF having
    <3>1. \A j \in having : n <= j
      BY <1>1, <2>1
    <3> QED
      BY <2>1, <3>1
  <2>3. m \in having
    <3> HIDE DEF having
    <3> QED
      BY <2>2
  <2>4. FindKey(bs, k) = CommandSeq[m]
    BY <1>3 DEF FindKey
  <2> HIDE DEF m
  <2> QED
    BY <1>1, <2>3, <2>4
<1> QED
  BY <1>2, <1>3

\* There are no conflicts if and only if no key has two commands.
LEMMA CheckFacts ==
  ASSUME NEW bs, SoundBindings(bs)
  PROVE  Check(bs) <=> \A c, d \in Commands : \A k \in Keys : HasKey(bs[c], k) /\ HasKey(bs[d], k) => c = d
<1>1. ASSUME NEW c \in Commands, NEW k \in Keys
      PROVE  HasKey(bs[c], k) <=> \E i \in 1..GetKeyCount(bs[c]) : bs[c].keys[i] = k
  <2>1. bs[c] \in Binding /\ Packed(bs[c].keys)
    BY DEF SoundBindings, Bindings
  <2>2. GetKeyCount(bs[c]) \in 0..MaxKeys /\ \A i \in Slots : bs[c].keys[i] # 0 <=> i <= GetKeyCount(bs[c])
    BY <2>1, CountFacts
  <2> QED
    BY <2>2, KeysAre DEF HasKey
<1>2. ASSUME NEW c \in Commands, NEW i \in 1..GetKeyCount(bs[c])
      PROVE  bs[c].keys[i] \in Keys
  <2>1. bs[c] \in Binding /\ Packed(bs[c].keys)
    BY DEF SoundBindings, Bindings
  <2>2. GetKeyCount(bs[c]) \in 0..MaxKeys /\ \A j \in Slots : bs[c].keys[j] # 0 <=> j <= GetKeyCount(bs[c])
    BY <2>1, CountFacts
  <2>3. bs[c].keys \in [Slots -> Keys \cup {0}]
    BY <2>1 DEF Binding
  <2> QED
    BY <2>2, <2>3, KeysAre
<1>3. Check(bs) <=> \A c \in Commands : \A k \in Keys : HasKey(bs[c], k) => FindKey(bs, k) = c
  BY <1>1, <1>2 DEF Check, HasConflict
<1>4. NoKeys \notin Commands
  BY NoKeysAssumption
<1>5. ASSUME Check(bs), NEW c \in Commands, NEW d \in Commands, NEW k \in Keys, HasKey(bs[c], k), HasKey(bs[d], k)
      PROVE  c = d
  BY <1>3, <1>5
<1>6. ASSUME \A c, d \in Commands : \A k \in Keys : HasKey(bs[c], k) /\ HasKey(bs[d], k) => c = d
      PROVE  Check(bs)
  <2> SUFFICES ASSUME NEW c \in Commands, NEW k \in Keys, HasKey(bs[c], k)
               PROVE  FindKey(bs, k) = c
    BY <1>3
  <2>1. FindKey(bs, k) \in Commands /\ HasKey(bs[FindKey(bs, k)], k)
    BY FindFacts
  <2> QED
    BY <1>6, <2>1
<1> QED
  BY <1>5, <1>6

\* Keys are put into the array in their order, as many as fit.
LEMMA PaddedFacts ==
  ASSUME NEW s \in Seq(Keys \cup {-1}), \A i \in 1..Len(s) : i <= MaxKeys => s[i] \in Keys
  PROVE  Padded(s) \in [Slots -> Keys \cup {0}] /\ Packed(Padded(s))
<1>1. Len(s) \in Nat
  OBVIOUS
<1>2. Padded(s) \in [Slots -> Keys \cup {0}] /\ \A i \in Slots : Padded(s)[i] = IF i <= Len(s) THEN s[i] ELSE 0
  BY <1>1, KeysAre DEF Padded
<1>3. \A i \in Slots : Padded(s)[i] = 0 <=> i > Len(s)
  BY <1>1, <1>2, KeysAre
<1>4. Packed(Padded(s))
  BY <1>1, <1>3, KeysAre DEF Packed
<1> QED
  BY <1>2, <1>4

LEMMA PaddedKeys ==
  ASSUME NEW s \in Seq(Keys), Len(s) <= MaxKeys
  PROVE  /\ Padded(s) \in [Slots -> Keys \cup {0}] /\ Packed(Padded(s))
         /\ \A b \in Binding : b.keys = Padded(s) => FirstKeys(b) = s
<1>1. Len(s) \in Nat /\ \A i \in 1..Len(s) : s[i] \in Keys
  OBVIOUS
<1>2. Padded(s) \in [Slots -> Keys \cup {0}] /\ \A i \in Slots : Padded(s)[i] = IF i <= Len(s) THEN s[i] ELSE 0
  BY <1>1, KeysAre DEF Padded
<1>3. \A i \in Slots : Padded(s)[i] = 0 <=> i > Len(s)
  BY <1>1, <1>2, KeysAre
<1>4. Padded(s) \in [Slots -> Keys \cup {0}] /\ Packed(Padded(s))
  BY <1>1, <1>2, <1>3, KeysAre DEF Packed
<1>5. ASSUME NEW b \in Binding, b.keys = Padded(s)
      PROVE  FirstKeys(b) = s
  <2> DEFINE n == GetKeyCount(b)
             t == SubSeq(b.keys, 1, n)
  <2>1. n \in 0..MaxKeys /\ \A i \in Slots : b.keys[i] # 0 <=> i <= n
    BY <1>4, <1>5, CountFacts
  <2> HIDE DEF n
  <2>2. n = Len(s)
    <3>1. CASE n < Len(s)
      <4>1. n + 1 \in Slots /\ b.keys[n + 1] # 0
        BY <1>1, <1>3, <1>5, <2>1, <3>1, KeysAre
      <4> QED
        BY <2>1, <4>1
    <3>2. CASE n > Len(s)
      <4>1. n \in Slots /\ b.keys[n] = 0
        BY <1>1, <1>3, <1>5, <2>1, <3>2, KeysAre
      <4> QED
        BY <2>1, <4>1
    <3> QED
      BY <1>1, <2>1, <3>1, <3>2
  <2>3. b.keys \in Seq(Keys \cup {0}) /\ Len(b.keys) = MaxKeys
    BY <1>2, <1>5, KeysAre
  <2>4. t \in Seq(Keys \cup {0}) /\ Len(t) = n /\ \A i \in 1..n : t[i] = b.keys[i]
    BY <2>1, <2>3, KeysAre
  <2>5. \A i \in 1..n : t[i] = s[i]
    BY <1>1, <1>2, <1>5, <2>2, <2>4, KeysAre
  <2> HIDE DEF t
  <2>6. t = s
    BY <2>2, <2>4, <2>5
  <2> QED
    BY <2>6 DEF t, n, FirstKeys
<1> QED
  BY <1>4, <1>5

\* What is read from a file are bindings.
LEMMA ParseFacts ==
  ASSUME NEW file, SoundFile(file)
  PROVE  SoundBindings(ParseFile(file))
<1> DEFINE yes == TRUE
           no == FALSE
           good(c) == c \in DOMAIN file /\ \A i \in DOMAIN file[c] \cap Slots : ParseKeyName(file[c][i]) # -1
           read(c) == [i \in DOMAIN file[c] |-> ParseKeyName(file[c][i])]
           line(c) == IF good(c) THEN [keys |-> Padded(read(c)), modified |-> yes] ELSE [keys |-> Padded(Defaults[c]), modified |-> no]
<1>1. ParseFile(file) = [c \in Commands |-> line(c)]
  BY Zenon DEF ParseFile
<1>2. yes \in BOOLEAN /\ no \in BOOLEAN /\ yes /\ ~no
  OBVIOUS
<1> HIDE DEF yes, no
<1>3. ASSUME NEW c \in Commands, good(c)
      PROVE  read(c) \in Seq(Keys \cup {-1}) /\ \A i \in 1..Len(read(c)) : i <= MaxKeys => read(c)[i] \in Keys
  <2>1. file[c] \in Seq({GetKeyName(k) : k \in Keys})
    BY <1>3 DEF SoundFile
  <2>2. DOMAIN file[c] = 1..Len(file[c]) /\ Len(file[c]) \in Nat
    BY <2>1
  <2>3. ASSUME NEW i \in 1..Len(file[c])
        PROVE  ParseKeyName(file[c][i]) \in Keys \cup {-1} /\ (i <= MaxKeys => ParseKeyName(file[c][i]) # -1)
    <3>1. PICK k \in Keys : file[c][i] = GetKeyName(k)
      BY <2>1
    <3>2. ParseKeyName(GetKeyName(k)) \in {k, -1}
      BY KeysAre, NameFacts
    <3>3. i <= MaxKeys => ParseKeyName(file[c][i]) # -1
      BY <1>3, <2>2, KeysAre
    <3> QED
      BY <3>1, <3>2, <3>3
  <2>4. read(c) \in Seq(Keys \cup {-1}) /\ Len(read(c)) = Len(file[c])
    BY <2>2, <2>3
  <2>5. \A i \in 1..Len(file[c]) : read(c)[i] = ParseKeyName(file[c][i])
    BY <2>2
  <2> QED
    BY <2>3, <2>4, <2>5
<1>4. ASSUME NEW c \in Commands
      PROVE  line(c) \in Binding /\ Packed(line(c).keys) /\ (~line(c).modified => line(c).keys = Padded(Defaults[c]))
  <2>1. CASE good(c)
    <3> DEFINE keys == Padded(read(c))
    <3>1. keys \in [Slots -> Keys \cup {0}] /\ Packed(keys)
      BY <1>3, <2>1, PaddedFacts
    <3>2. line(c) = [keys |-> keys, modified |-> yes]
      BY <2>1
    <3> HIDE DEF keys, line
    <3> QED
      BY <1>2, <3>1, <3>2 DEF Binding
  <2>2. CASE ~good(c)
    <3> DEFINE keys == Padded(Defaults[c])
    <3>1. keys \in [Slots -> Keys \cup {0}] /\ Packed(keys)
      BY PaddedKeys, KeysAssumption
    <3>2. line(c) = [keys |-> keys, modified |-> no]
      BY <2>2
    <3> HIDE DEF line
    <3> QED
      BY <1>2, <3>1, <3>2 DEF Binding
  <2> QED
    BY <2>1, <2>2
<1> HIDE DEF line
<1> QED
  BY <1>1, <1>4 DEF SoundBindings, Bindings

\* What is saved is a file, and it is read as what was saved.
LEMMA WriteFacts ==
  ASSUME NEW bs, SoundBindings(bs)
  PROVE  /\ SoundFile(WriteToFile(bs))
         /\ (\A k \in Keys : Nameable(k)) => \A c \in Commands : FirstKeys(ParseFile(WriteToFile(bs))[c]) = FirstKeys(bs[c])
<1> DEFINE file == WriteToFile(bs)
           n(c) == GetKeyCount(bs[c])
           names(c) == [i \in 1..n(c) |-> GetKeyName(bs[c].keys[i])]
<1>1. DOMAIN file = {c \in Commands : bs[c].modified} /\ file = [c \in DOMAIN file |-> file[c]]
  BY Zenon DEF WriteToFile
<1>2. \A c \in DOMAIN file : file[c] = names(c)
  BY <1>1, Zenon DEF WriteToFile
<1>3. ASSUME NEW c \in Commands
      PROVE  /\ n(c) \in 0..MaxKeys /\ \A i \in 1..n(c) : bs[c].keys[i] \in Keys
             /\ bs[c] \in Binding /\ Packed(bs[c].keys)
  <2>1. bs[c] \in Binding /\ Packed(bs[c].keys)
    BY DEF SoundBindings, Bindings
  <2>2. n(c) \in 0..MaxKeys /\ \A i \in Slots : bs[c].keys[i] # 0 <=> i <= n(c)
    BY <2>1, CountFacts
  <2>3. bs[c].keys \in [Slots -> Keys \cup {0}]
    BY <2>1 DEF Binding
  <2> QED
    BY <2>1, <2>2, <2>3, KeysAre
<1> HIDE DEF file, n
<1>4. ASSUME NEW c \in Commands
      PROVE  names(c) \in Seq({GetKeyName(k) : k \in Keys}) /\ Len(names(c)) = n(c)
  BY <1>3
<1>5. SoundFile(file)
  <2> HIDE DEF names
  <2> QED
    BY <1>1, <1>2, <1>3, <1>4 DEF SoundFile
<1>6. ASSUME \A k \in Keys : Nameable(k), NEW c \in Commands
      PROVE  FirstKeys(ParseFile(file)[c]) = FirstKeys(bs[c])
  <2>0. SoundBindings(ParseFile(file))
    BY <1>5, ParseFacts
  <2>1. ParseFile(file)[c] \in Binding
    BY <2>0 DEF SoundBindings, Bindings
  <2>2. CASE bs[c].modified
    <3> DEFINE s == [i \in 1..n(c) |-> bs[c].keys[i]]
               read == [i \in DOMAIN file[c] |-> ParseKeyName(file[c][i])]
    <3>1. c \in DOMAIN file /\ file[c] = names(c)
      BY <1>1, <1>2, <2>2
    <3>2. DOMAIN file[c] = 1..n(c) /\ \A i \in 1..n(c) : file[c][i] = GetKeyName(bs[c].keys[i])
      BY <3>1
    <3>3. \A i \in 1..n(c) : ParseKeyName(file[c][i]) = bs[c].keys[i]
      BY <1>3, <1>6, <3>2, NameFacts, KeysAre
    <3>4. read = s
      BY <3>2, <3>3
    <3>5. \A i \in DOMAIN file[c] \cap Slots : ParseKeyName(file[c][i]) # -1
      BY <1>3, <3>2, <3>3, KeysAre
    <3>6. ParseFile(file)[c].keys = Padded(read)
      <4> DEFINE yes == TRUE
      <4>1. ParseFile(file)[c] = [keys |-> Padded(read), modified |-> yes]
        BY <3>1, <3>5, Zenon DEF ParseFile
      <4> HIDE DEF yes, read
      <4> QED
        BY <4>1
    <3>7. s \in Seq(Keys) /\ Len(s) = n(c) /\ n(c) <= MaxKeys
      BY <1>3
    <3>8. FirstKeys(ParseFile(file)[c]) = s
      <4> HIDE DEF s, read
      <4> QED
        BY <2>1, <3>4, <3>6, <3>7, PaddedKeys
    <3>9. FirstKeys(bs[c]) = s
      <4>1. bs[c].keys \in Seq(Keys \cup {0}) /\ Len(bs[c].keys) = MaxKeys
        BY <1>3, KeysAre DEF Binding
      <4>2. SubSeq(bs[c].keys, 1, n(c)) = s
        BY <1>3, <4>1
      <4> QED
        BY <4>2 DEF FirstKeys, n
    <3> QED
      BY <3>8, <3>9
  <2>3. CASE ~bs[c].modified
    <3>1. c \notin DOMAIN file
      BY <1>1, <2>3
    <3>2. ParseFile(file)[c].keys = Padded(Defaults[c])
      <4> DEFINE no == FALSE
                 keys == Padded(Defaults[c])
      <4>1. ParseFile(file)[c] = [keys |-> keys, modified |-> no]
        BY <3>1, Zenon DEF ParseFile
      <4> HIDE DEF no, keys
      <4>2. ParseFile(file)[c].keys = keys
        BY <4>1
      <4> QED
        BY <4>2 DEF keys
    <3>3. bs[c].keys = Padded(Defaults[c])
      BY <2>3 DEF SoundBindings
    <3> QED
      BY <1>3, <2>1, <3>2, <3>3, PaddedKeys, KeysAssumption
  <2> QED
    BY <2>2, <2>3
<1> QED
  BY <1>5, <1>6 DEF file
-----------------------------------------------------------------------------
(* Edits, and the rows that show them *)

\* No key that was of one command becomes another's as well.
NoneShared(old, new) ==
  \A c, d \in Commands : \A k \in Keys :
    c # d /\ HasKey(new[c], k) /\ HasKey(new[d], k) => HasKey(old[c], k) /\ HasKey(old[d], k)

\* Where a command's new keys are its own or nobody's, there is no new conflict.
LEMMA EditFacts ==
  ASSUME NEW bs, SoundBindings(bs), NEW c \in Commands, NEW keys \in [Slots -> Keys \cup {0}], Packed(keys),
         NEW new, new = [bs EXCEPT ![c] = [keys |-> keys, modified |-> TRUE]],
         \A k \in Keys : (\E i \in Slots : keys[i] = k) => HasKey(bs[c], k) \/ \A d \in Commands : ~HasKey(bs[d], k)
  PROVE  SoundBindings(new) /\ NoneShared(bs, new) /\ (Check(bs) => Check(new))
<1> DEFINE yes == TRUE
           b == [keys |-> keys, modified |-> yes]
<1>1. new = [bs EXCEPT ![c] = b]
  BY Zenon
<1>2. yes \in BOOLEAN /\ yes
  OBVIOUS
<1> HIDE DEF yes
<1>3. b \in Binding /\ b.keys = keys /\ b.modified = yes
  BY <1>2 DEF Binding
<1> HIDE DEF b
<1>4. bs \in [Commands -> Binding]
  BY DEF SoundBindings, Bindings
<1>5. new \in [Commands -> Binding] /\ new[c] = b /\ \A d \in Commands : d # c => new[d] = bs[d]
  BY <1>1, <1>3, <1>4
<1>6. SoundBindings(new)
  BY <1>2, <1>3, <1>5 DEF SoundBindings, Bindings
<1>7. \A k \in Keys : HasKey(new[c], k) => HasKey(bs[c], k) \/ \A d \in Commands : ~HasKey(bs[d], k)
  BY <1>3, <1>5 DEF HasKey
<1>8. NoneShared(bs, new)
  <2> SUFFICES ASSUME NEW d \in Commands, NEW e \in Commands, NEW k \in Keys, d # e, HasKey(new[d], k), HasKey(new[e], k)
               PROVE  HasKey(bs[d], k) /\ HasKey(bs[e], k)
    BY DEF NoneShared
  <2>1. CASE d = c
    BY <1>5, <1>7, <2>1
  <2>2. CASE e = c
    BY <1>5, <1>7, <2>2
  <2>3. CASE d # c /\ e # c
    BY <1>5, <2>3
  <2> QED
    BY <2>1, <2>2, <2>3
<1>9. ASSUME Check(bs)
      PROVE  Check(new)
  BY <1>6, <1>8, <1>9, CheckFacts DEF NoneShared
<1> QED
  BY <1>6, <1>8, <1>9

\* What the page of a command shows: the keys, the marks on those with a conflict, the cursor on a line
RowsRight(s, c) ==
  /\ s.count = GetKeyCount(s.bindings[c])
  /\ s.marked = {i \in 1..GetKeyCount(s.bindings[c]) : FindKey(s.bindings, s.bindings[c].keys[i]) # c}
  /\ s.cursor \in 0..LastPosition(s.count)

\* UpdateListLength() sets the lines of the page, and nothing else.
LEMMA UpdateFacts ==
  ASSUME NEW s \in KeyedAll, NEW c \in Commands, SoundBindings(s.bindings), NEW t, t = UpdateListLength(s, c)
  PROVE  /\ t \in KeyedAll /\ RowsRight(t, c)
         /\ t.global = s.global /\ t.checking = s.checking /\ t.bindings = s.bindings /\ t.page = s.page /\ t.last = s.last
         /\ t.listed = s.listed /\ t.asking = s.asking /\ t.file = s.file
<1> DEFINE n == GetKeyCount(s.bindings[c])
           last == LastPosition(n)
           marks == {i \in 1..n : FindKey(s.bindings, s.bindings[c].keys[i]) # c}
           cursor == IF s.cursor > last THEN last ELSE s.cursor
<1>1. t = [s EXCEPT !.count = n, !.cursor = cursor, !.marked = marks]
  BY DEF UpdateListLength
<1>2. s.bindings[c] \in Binding /\ Packed(s.bindings[c].keys)
  BY DEF SoundBindings, Bindings
<1>3. n \in 0..MaxKeys
  BY <1>2, CountFacts
<1>4. marks \in SUBSET Slots
  BY <1>3, KeysAre
<1> HIDE DEF n, marks
<1>5. last \in 0..MaxKeys + 1
  BY <1>3, KeysAre DEF LastPosition, AddPosition
<1>6. cursor \in 0..last /\ cursor \in 0..MaxKeys + 1
  BY <1>5, KeysAre DEF KeyedAll, Keyed
<1> HIDE DEF cursor
<1>7. t \in KeyedAll
  BY <1>1, <1>3, <1>4, <1>6 DEF KeyedAll, Keyed
<1>8. /\ t.global = s.global /\ t.checking = s.checking /\ t.bindings = s.bindings /\ t.page = s.page /\ t.last = s.last
      /\ t.listed = s.listed /\ t.asking = s.asking /\ t.file = s.file
      /\ t.count = n /\ t.cursor = cursor /\ t.marked = marks
  BY <1>1 DEF KeyedAll, Keyed
<1>9. RowsRight(t, c)
  <2>1. t.count = GetKeyCount(t.bindings[c])
    BY <1>8 DEF n
  <2>2. t.marked = {i \in 1..GetKeyCount(t.bindings[c]) : FindKey(t.bindings, t.bindings[c].keys[i]) # c}
    BY <1>8 DEF marks, n
  <2>3. t.cursor \in 0..LastPosition(t.count)
    BY <1>6, <1>8
  <2> QED
    BY <2>1, <2>2, <2>3 DEF RowsRight
<1> QED
  BY <1>7, <1>8, <1>9

\* The rows of a command's page are its keys, each with its mark.
LEMMA RowsFacts ==
  ASSUME NEW s \in KeyedAll, NEW c \in Commands, s.page = c, SoundBindings(s.bindings), RowsRight(s, c)
  PROVE  /\ {KeyRows(s)[i] : i \in 1..s.count} =
              {[key |-> k, alert |-> FindKey(s.bindings, k) # s.page] : k \in {k \in Keys : HasKey(s.bindings[s.page], k)}}
         /\ s.cursor <= LastPosition(s.count)
<1> DEFINE keys == s.bindings[c].keys
           n == s.count
           mark(i) == i \in s.marked
           alert(k) == FindKey(s.bindings, k) # s.page
<1>1. s.bindings[c] \in Binding /\ Packed(keys)
  BY DEF SoundBindings, Bindings
<1>2. n \in 0..MaxKeys /\ \A i \in Slots : keys[i] # 0 <=> i <= n
  BY <1>1, CountFacts DEF RowsRight
<1>3. keys \in [Slots -> Keys \cup {0}]
  BY <1>1 DEF Binding
<1>4. \A k \in Keys : HasKey(s.bindings[s.page], k) <=> \E i \in 1..n : keys[i] = k
  BY <1>2, <1>3, KeysAre DEF HasKey
<1>5. \A i \in 1..n : keys[i] \in Keys
  BY <1>2, <1>3, KeysAre
<1>6. \A i \in 1..n : mark(i) = alert(keys[i])
  <2> SUFFICES ASSUME NEW i \in 1..n
               PROVE  mark(i) <=> alert(keys[i])
    OBVIOUS
  <2> QED
    BY DEF RowsRight
<1>7. \A i \in 1..n : KeyRows(s)[i] = [key |-> keys[i], alert |-> mark(i)]
  BY Zenon DEF KeyRows
<1> HIDE DEF keys, n, mark, alert
<1>8. \A i \in 1..n : KeyRows(s)[i] = [key |-> keys[i], alert |-> alert(keys[i])]
  BY <1>6, <1>7
<1>9. {KeyRows(s)[i] : i \in 1..n} = {[key |-> k, alert |-> alert(k)] : k \in {k \in Keys : HasKey(s.bindings[s.page], k)}}
  <2> DEFINE row(k) == [key |-> k, alert |-> alert(k)]
             have == {k \in Keys : HasKey(s.bindings[s.page], k)}
  <2>1. \A i \in 1..n : keys[i] \in have /\ KeyRows(s)[i] = row(keys[i])
    BY <1>4, <1>5, <1>8
  <2>2. \A k \in have : \E i \in 1..n : KeyRows(s)[i] = row(k)
    BY <1>4, <1>8
  <2> HIDE DEF row, have
  <2>3. {KeyRows(s)[i] : i \in 1..n} = {row(k) : k \in have}
    BY <2>1, <2>2
  <2> QED
    BY <2>3 DEF row, have
<1>10. s.cursor <= LastPosition(s.count)
  BY <1>2 DEF RowsRight, LastPosition, AddPosition, n
<1> QED
  BY <1>9, <1>10 DEF alert, n

LEMMA IsBefore ==
  ASSUME NEW i \in Nat, i > 0, NEW j \in Nat, i <= j, NEW n \in Nat, j < n, NEW m \in Nat, n <= m
  PROVE  j \in 1..n - 1 /\ j # m
OBVIOUS

\* A key is deleted: the ones after it move up, and the last slot is free.
LastFrom(keys, i) ==
  CHOOSE j \in i..MaxKeys : /\ j = MaxKeys \/ keys[j + 1] = 0
                            /\ \A n \in i + 1..j : keys[n] # 0
Shifted(keys, i, last) == [j \in Slots |-> IF j >= i /\ j < last THEN keys[j + 1] ELSE IF j = last THEN 0 ELSE keys[j]]

LEMMA DeleteFacts ==
  ASSUME NEW b \in Binding, Packed(b.keys), NEW i \in 1..GetKeyCount(b)
  PROVE  /\ Shifted(b.keys, i, LastFrom(b.keys, i)) \in [Slots -> Keys \cup {0}]
         /\ Packed(Shifted(b.keys, i, LastFrom(b.keys, i)))
         /\ \A k \in Keys : (\E j \in Slots : Shifted(b.keys, i, LastFrom(b.keys, i))[j] = k) => HasKey(b, k)
<1> DEFINE last == LastFrom(b.keys, i)
           new == Shifted(b.keys, i, last)
           n == GetKeyCount(b)
           Ends(j) == (j = MaxKeys \/ b.keys[j + 1] = 0) /\ \A m \in i + 1..j : b.keys[m] # 0
<1>1. n \in 0..MaxKeys /\ \A j \in Slots : b.keys[j] # 0 <=> j <= n
  BY CountFacts
<1>2. b.keys \in [Slots -> Keys \cup {0}]
  BY DEF Binding
<1>3. i \in 1..n
  OBVIOUS
<1> HIDE DEF n
<1>3a. ASSUME NEW j \in 1..n - 1
      PROVE  j + 1 \in Slots /\ b.keys[j + 1] # 0
  <2>1. j + 1 \in Slots /\ j + 1 <= n
    BY <1>1, KeysAre
  <2> QED
    BY <1>1, <2>1
<1>4. n \in i..MaxKeys /\ Ends(n)
  BY <1>1, <1>3, KeysAre
<1>5. last = CHOOSE j \in i..MaxKeys : Ends(j)
  BY Zenon DEF LastFrom
<1>5a. new = [j \in Slots |-> IF j >= i /\ j < last THEN b.keys[j + 1] ELSE IF j = last THEN 0 ELSE b.keys[j]]
  BY Zenon DEF Shifted
<1> HIDE DEF last, new
<1>6. last \in i..MaxKeys /\ Ends(last)
  <2> HIDE DEF Ends
  <2> QED
    BY <1>4, <1>5
<1>7. last = n
  <2>1. ASSUME last < n
        PROVE  FALSE
    <3>1. last \in 1..n - 1 /\ last # MaxKeys
      <4>1. n \in Nat /\ n <= MaxKeys /\ MaxKeys \in Nat
        BY <1>1, KeysAre
      <4>2. i \in Nat /\ i > 0
        BY <1>3, <4>1
      <4>3. last \in Nat /\ i <= last
        BY <1>6, <4>1, <4>2
      <4> QED
        BY <2>1, <4>1, <4>2, <4>3, IsBefore
    <3> QED
      BY <1>6, <1>3a, <3>1
  <2>2. ASSUME last > n
        PROVE  FALSE
    BY <1>1, <1>3, <1>6, <2>2, KeysAre
  <2> QED
    BY <1>1, <1>6, <2>1, <2>2, KeysAre
<1>8. \A j \in Slots : new[j] = IF j >= i /\ j < n THEN b.keys[j + 1] ELSE IF j = n THEN 0 ELSE b.keys[j]
  BY <1>7, <1>5a
<1>9. new \in [Slots -> Keys \cup {0}]
  <2>1. \A j \in Slots : new[j] \in Keys \cup {0}
    <3> SUFFICES ASSUME NEW j \in Slots
                 PROVE  new[j] \in Keys \cup {0}
      OBVIOUS
    <3>1. CASE j >= i /\ j < n
      <4>1. j \in 1..n - 1
        BY <1>1, <1>3, <3>1, KeysAre
      <4> QED
        BY <1>2, <1>8, <1>3a, <3>1, <4>1
    <3>2. CASE ~(j >= i /\ j < n)
      BY <1>2, <1>8, <3>2
    <3> QED
      BY <3>1, <3>2
  <2> QED
    BY <1>5a, <2>1
<1>10. \A j \in Slots : new[j] # 0 <=> j < n
  <2> SUFFICES ASSUME NEW j \in Slots
               PROVE  new[j] # 0 <=> j < n
    OBVIOUS
  <2>1. CASE j >= i /\ j < n
    <3>1. j \in 1..n - 1
      BY <1>1, <1>3, <2>1, KeysAre
    <3> QED
      BY <1>8, <1>3a, <2>1, <3>1
  <2>2. CASE ~(j >= i /\ j < n)
    BY <1>1, <1>3, <1>8, <2>2, KeysAre
  <2> QED
    BY <2>1, <2>2
<1>11. Packed(new)
  BY <1>1, <1>10, KeysAre DEF Packed
<1>12. ASSUME NEW k \in Keys, NEW j \in Slots, new[j] = k
       PROVE  HasKey(b, k)
  <2>1. j < n
    BY <1>10, <1>12, KeysAre
  <2>2. new[j] = b.keys[j] \/ (j + 1 \in Slots /\ new[j] = b.keys[j + 1])
    <3>1. j \in 1..n - 1 /\ j # n
      BY <1>1, <2>1, KeysAre
    <3> QED
      BY <1>8, <1>3a, <2>1, <3>1
  <2> QED
    BY <1>12, <2>2 DEF HasKey
<1> QED
  BY <1>9, <1>11, <1>12 DEF new, last

\* A key is written over another one, or behind the last.
Overwritten(keys, i, k) == [keys EXCEPT ![i] = k]

LEMMA OverwriteFacts ==
  ASSUME NEW b \in Binding, Packed(b.keys), NEW i \in Slots, i <= GetKeyCount(b) + 1, NEW k \in Keys
  PROVE  /\ Overwritten(b.keys, i, k) \in [Slots -> Keys \cup {0}] /\ Packed(Overwritten(b.keys, i, k))
         /\ \A l \in Keys : (\E j \in Slots : Overwritten(b.keys, i, k)[j] = l) => HasKey(b, l) \/ l = k
<1> DEFINE new == Overwritten(b.keys, i, k)
           n == GetKeyCount(b)
<1>1. n \in 0..MaxKeys /\ \A j \in Slots : b.keys[j] # 0 <=> j <= n
  BY CountFacts
<1>2. b.keys \in [Slots -> Keys \cup {0}]
  BY DEF Binding
<1>3. i <= n + 1
  OBVIOUS
<1> HIDE DEF n
<1>4. new \in [Slots -> Keys \cup {0}] /\ \A j \in Slots : new[j] = IF j = i THEN k ELSE b.keys[j]
  BY <1>2 DEF Overwritten
<1> HIDE DEF new
<1>5. Packed(new)
  BY <1>1, <1>3, <1>4, KeysAre DEF Packed
<1> QED
  BY <1>4, <1>5 DEF HasKey, new

-----------------------------------------------------------------------------
(* The page *)

KeysGood(s) ==
  /\ s \in KeyedAll /\ SoundBindings(s.global) /\ SoundFile(s.file)
  /\ s.bindings # NoKeys => SoundBindings(s.bindings) /\ (Check(s.global) => Check(s.bindings))
  /\ s.page \in {s.last, NoKeys}
  /\ s.page # NoKeys => s.bindings # NoKeys
  /\ s.last # "list" => s.bindings # NoKeys /\ RowsRight(s, s.last)
  /\ s.page = "list" => s.listed = {c \in Commands : HasConflict(s.bindings, c)}
  /\ s.asking # NoKeys => s.page \in Commands /\ s.asking \in Slots /\ s.asking <= s.count + 1
  /\ ~s.checking => Check(s.global)

LEMMA NamesDiffer == NoKeys \notin Commands /\ NoKeys # "list" /\ NoKeys \notin Slots /\ NoKeys \notin Bindings /\ "list" \notin Commands
BY NoKeysAssumption, KeysAssumption

\* The states of two moments agree but for the page.
SameKeys(s, t) ==
  /\ t.global = s.global /\ t.checking = s.checking /\ t.file = s.file

\* The page of a command is shown anew, with its old bindings or new ones.
LEMMA ShownGood ==
  ASSUME NEW s, KeysGood(s), NEW c \in Commands, NEW m \in KeyedAll, SameKeys(s, m),
         m.page = c, m.last = c, m.asking = NoKeys, SoundBindings(m.bindings), Check(s.bindings) => Check(m.bindings),
         s.bindings # NoKeys, NEW t, t = UpdateListLength(m, c)
  PROVE  KeysGood(t) /\ t.bindings = m.bindings
<1>1. /\ t \in KeyedAll /\ RowsRight(t, c)
      /\ t.global = m.global /\ t.checking = m.checking /\ t.bindings = m.bindings /\ t.page = m.page /\ t.last = m.last
      /\ t.listed = m.listed /\ t.asking = m.asking /\ t.file = m.file
  BY UpdateFacts
<1>2. t.bindings # NoKeys
  BY <1>1, NamesDiffer DEF SoundBindings
<1>3. /\ SoundBindings(t.global) /\ SoundFile(t.file) /\ (~t.checking => Check(t.global))
      /\ SoundBindings(t.bindings) /\ (Check(t.global) => Check(t.bindings))
  BY <1>1 DEF KeysGood, SameKeys
<1> QED
  BY <1>1, <1>2, <1>3, NamesDiffer DEF KeysGood

\* CommandListPage::OnOpen()
LEMMA ListGood ==
  ASSUME NEW s, KeysGood(s), NEW t, t = OpenList(s)
  PROVE  KeysGood(t) /\ t.bindings = IF s.bindings = NoKeys THEN s.global ELSE s.bindings
<1> DEFINE bs == IF s.bindings = NoKeys THEN s.global ELSE s.bindings
           listed == {c \in Commands : HasConflict(bs, c)}
           zero == 0
           none == {}
<1>1. SoundBindings(bs) /\ (Check(s.global) => Check(bs)) /\ bs \in Bindings /\ bs # NoKeys
  BY NamesDiffer DEF KeysGood, SoundBindings
<1>2. listed \in SUBSET Commands /\ none \in SUBSET Slots /\ zero \in 0..MaxKeys /\ zero \in 0..MaxKeys + 1
  BY KeysAre
<1>3. t = [s EXCEPT !.page = "list", !.last = "list", !.bindings = bs, !.asking = NoKeys, !.count = zero, !.marked = none,
                    !.cursor = zero, !.listed = listed]
  BY Zenon DEF OpenList
<1> HIDE DEF listed, none, zero, bs
<1>4. s \in KeyedAll
  BY DEF KeysGood
<1>5. /\ t.page = "list" /\ t.last = "list" /\ t.bindings = bs /\ t.asking = NoKeys /\ t.listed = listed
      /\ t.global = s.global /\ t.checking = s.checking /\ t.file = s.file
  BY <1>3, <1>4 DEF KeyedAll, Keyed
<1>6. t \in KeyedAll
  BY <1>1, <1>2, <1>3, <1>4, ZenonT(60) DEF KeyedAll, Keyed
<1>7. t.listed = {c \in Commands : HasConflict(t.bindings, c)}
  BY <1>5 DEF listed
<1> QED
  BY <1>1, <1>5, <1>6, <1>7, NamesDiffer DEF KeysGood, bs

\* A file consists of names.
LEMMA FileFacts ==
  ASSUME NEW file, SoundFile(file)
  PROVE  IsFile(file)
<1> DEFINE names == {GetKeyName(k) : k \in Keys}
<1>1. DOMAIN file \subseteq Commands /\ \A c \in DOMAIN file : file[c] \in Seq(names)
  BY DEF SoundFile
<1>2. names \subseteq KeyNames
  BY NameFacts, KeysAre, ZenonT(60)
<1> HIDE DEF names
<1>3. \A c \in DOMAIN file : file[c] \in Seq(KeyNames)
  BY <1>1, <1>2
<1> QED
  BY <1>1, <1>3 DEF IsFile

LEMMA StartGood ==
  ASSUME NEW file, SoundFile(file)
  PROVE  KeysGood(Start(file))
<1> DEFINE t == Start(file)
           yes == TRUE
           none == {}
           zero == 0
<1>1. t = [global |-> ParseFile(file), checking |-> yes, bindings |-> NoKeys, page |-> NoKeys, last |-> "list", listed |-> none,
           marked |-> none, count |-> zero, cursor |-> zero, asking |-> NoKeys, file |-> file]
  BY Zenon DEF Start
<1>2. yes /\ yes \in BOOLEAN /\ none \in SUBSET Commands /\ none \in SUBSET Slots /\ zero \in 0..MaxKeys /\ zero \in 0..MaxKeys + 1
  BY KeysAre
<1>3. SoundBindings(ParseFile(file)) /\ ParseFile(file) \in Bindings
  BY ParseFacts DEF SoundBindings
<1>4. file \in Files
  <2>1. IsFile(file)
    BY FileFacts
  <2>2. file = [c \in DOMAIN file |-> file[c]]
    BY DEF SoundFile
  <2> QED
    BY <2>1, <2>2 DEF Files, IsFile
<1> HIDE DEF t, yes, none, zero
<1>5. t \in KeyedAll
  BY <1>1, <1>2, <1>3, <1>4 DEF KeyedAll, Keyed
<1>6. t.global = ParseFile(file) /\ t.checking = yes /\ t.bindings = NoKeys /\ t.page = NoKeys /\ t.last = "list" /\ t.asking = NoKeys /\ t.file = file
  BY <1>1
<1>7. KeysGood(t)
  BY <1>2, <1>3, <1>5, <1>6, NamesDiffer DEF KeysGood
<1> QED
  BY <1>7 DEF t

LEMMA InitGood ==
  ASSUME KeysInit
  PROVE  KeysGood(keyed)
<1>1. PICK written \in KeyFiles : keyed = Start([c \in DOMAIN written |-> [i \in DOMAIN written[c] |-> GetKeyName(written[c][i])]])
  BY Zenon DEF KeysInit
<1> DEFINE line(c) == [i \in DOMAIN written[c] |-> GetKeyName(written[c][i])]
           file == [c \in DOMAIN written |-> line(c)]
<1>2. DOMAIN written \subseteq Commands /\ \A c \in DOMAIN written : written[c] \in Seq(Keys)
  BY KeysAssumption
<1>3. \A c \in DOMAIN written : line(c) \in Seq({GetKeyName(k) : k \in Keys})
  BY <1>2
<1> HIDE DEF line
<1>4. SoundFile(file)
  BY <1>2, <1>3 DEF SoundFile
<1>5. keyed = Start(file)
  BY <1>1 DEF line
<1> QED
  BY <1>4, <1>5, StartGood

\* Applied(), Saved()
LEMMA AppliedGood ==
  ASSUME NEW s, KeysGood(s), s.page # NoKeys, NEW t, t = Applied(s)
  PROVE  KeysGood(t) /\ t.bindings = s.bindings /\ t.file = s.file
<1>1. s \in KeyedAll /\ s.bindings # NoKeys /\ SoundBindings(s.bindings) /\ s.bindings \in Bindings
  BY DEF KeysGood, SoundBindings
<1>2. t = [s EXCEPT !.global = s.bindings]
  BY <1>1 DEF Applied, KeyedAll, Keyed
<1>3. /\ t.global = s.bindings /\ t.bindings = s.bindings /\ t.file = s.file /\ t.checking = s.checking /\ t.page = s.page
      /\ t.last = s.last /\ t.listed = s.listed /\ t.count = s.count /\ t.marked = s.marked /\ t.cursor = s.cursor /\ t.asking = s.asking
  BY <1>1, <1>2 DEF KeyedAll, Keyed
<1>4. t \in KeyedAll
  BY <1>1, <1>2 DEF KeyedAll, Keyed
<1>5. s.last # "list" => RowsRight(t, t.last)
  BY <1>3 DEF KeysGood, RowsRight
<1> QED
  BY <1>1, <1>3, <1>4, <1>5 DEF KeysGood

LEMMA SavedGood ==
  ASSUME NEW s, KeysGood(s), NEW t, t = Saved(s)
  PROVE  KeysGood(t) /\ t.bindings = s.bindings /\ t.global = s.global /\ t.file = WriteToFile(s.global)
<1> DEFINE file == WriteToFile(s.global)
<1>1. s \in KeyedAll /\ SoundFile(file)
  BY WriteFacts DEF KeysGood
<1>2. file \in Files
  <2>1. KeysGood(Start(file))
    BY <1>1, StartGood
  <2>2. Start(file).file = file
    <3> DEFINE yes == TRUE
    <3>1. Start(file) = [global |-> ParseFile(file), checking |-> yes, bindings |-> NoKeys, page |-> NoKeys, last |-> "list",
                         listed |-> {}, marked |-> {}, count |-> 0, cursor |-> 0, asking |-> NoKeys, file |-> file]
      BY Zenon DEF Start
    <3> HIDE DEF file, yes
    <3> QED
      BY <3>1
  <2> HIDE DEF file
  <2> QED
    BY <2>1, <2>2 DEF KeysGood, KeyedAll, Keyed
<1>3. t = [s EXCEPT !.file = file]
  BY DEF Saved
<1> HIDE DEF file
<1>4. /\ t.global = s.global /\ t.bindings = s.bindings /\ t.file = file /\ t.checking = s.checking /\ t.page = s.page
      /\ t.last = s.last /\ t.listed = s.listed /\ t.count = s.count /\ t.marked = s.marked /\ t.cursor = s.cursor /\ t.asking = s.asking
  BY <1>1, <1>3 DEF KeyedAll, Keyed
<1>5. t \in KeyedAll
  BY <1>1, <1>2, <1>3 DEF KeyedAll, Keyed
<1>6. s.last # "list" => RowsRight(t, t.last)
  BY <1>4 DEF KeysGood, RowsRight
<1> QED
  BY <1>1, <1>4, <1>5, <1>6 DEF KeysGood, file
-----------------------------------------------------------------------------
(* The steps *)

\* Current, of any state
Bound(s) == IF s.bindings = NoKeys THEN s.global ELSE s.bindings

\* A step keeps the invariant, and it makes no key another command's, too.
Keeps(s, t) == KeysGood(t) /\ (Bound(t) = Bound(s) \/ NoneShared(Bound(s), Bound(t)))

\* The bindings of a command are replaced, and its page shown anew.
LEMMA EditKeeps ==
  ASSUME NEW s, KeysGood(s), NEW c \in Commands, s.page = c, NEW keys \in [Slots -> Keys \cup {0}], Packed(keys),
         \A k \in Keys : (\E i \in Slots : keys[i] = k) => HasKey(s.bindings[c], k) \/ \A d \in Commands : ~HasKey(s.bindings[d], k),
         NEW t, t = UpdateListLength([s EXCEPT !.asking = NoKeys, !.bindings[c] = [keys |-> keys, modified |-> TRUE]], c)
  PROVE  Keeps(s, t)
<1> DEFINE new == [s.bindings EXCEPT ![c] = [keys |-> keys, modified |-> TRUE]]
           m == [s EXCEPT !.asking = NoKeys, !.bindings = new]
<1>1. s \in KeyedAll /\ SoundBindings(s.bindings) /\ s.bindings # NoKeys /\ s.page # "list" /\ s.last = c
  BY NamesDiffer DEF KeysGood
<1>2. SoundBindings(new) /\ NoneShared(s.bindings, new) /\ (Check(s.bindings) => Check(new))
  BY <1>1, EditFacts
<1>3. t = UpdateListLength(m, c)
  BY Zenon
<1> HIDE DEF new
<1>4. new \in Bindings
  BY <1>2 DEF SoundBindings
<1>5. m \in KeyedAll
  BY <1>1, <1>4 DEF KeyedAll, Keyed
<1>6. m.bindings = new /\ m.asking = NoKeys /\ m.page = s.page /\ m.last = s.last /\ SameKeys(s, m)
  BY <1>1 DEF KeyedAll, Keyed, SameKeys
<1> HIDE DEF m
<1>7. KeysGood(t) /\ t.bindings = new
  BY <1>1, <1>2, <1>3, <1>5, <1>6, ShownGood
<1>8. new # NoKeys
  BY <1>4, NamesDiffer
<1> QED
  BY <1>1, <1>2, <1>7, <1>8 DEF Keeps, Bound

LEMMA DeleteKeeps ==
  ASSUME KeysGood(keyed), keyed.asking = NoKeys, DeleteKey
  PROVE  Keeps(keyed, keyed')
<1> DEFINE c == keyed.page
           b == keyed.bindings[c]
           i == keyed.cursor
           new == Shifted(b.keys, i, LastFrom(b.keys, i))
<1>1. c \in Commands /\ IsKeyPosition(keyed, i)
  BY DEF DeleteKey
<1>2. keyed' = UpdateListLength([keyed EXCEPT !.bindings[c] = [keys |-> new, modified |-> TRUE]], c)
  BY Zenon DEF DeleteKey, Shifted, LastFrom
<1>3. keyed \in KeyedAll /\ SoundBindings(keyed.bindings) /\ RowsRight(keyed, c) /\ b \in Binding /\ Packed(b.keys)
  BY <1>1, NamesDiffer DEF KeysGood, SoundBindings, Bindings
<1>4. i \in 1..GetKeyCount(b)
  <2>1. GetKeyCount(b) \in 0..MaxKeys /\ keyed.count = GetKeyCount(b) /\ i \in 0..LastPosition(keyed.count)
    BY <1>3, CountFacts DEF RowsRight
  <2>2. i \in 0..MaxKeys + 1
    BY <1>3 DEF KeyedAll, Keyed
  <2> QED
    BY <1>1, <2>1, <2>2, KeysAre DEF IsKeyPosition, LeavePosition, AddPosition
<1>5. /\ new \in [Slots -> Keys \cup {0}] /\ Packed(new)
      /\ \A k \in Keys : (\E j \in Slots : new[j] = k) => HasKey(b, k)
  BY <1>3, <1>4, DeleteFacts
<1> HIDE DEF new
<1>6. [keyed EXCEPT !.asking = NoKeys] = keyed
  BY <1>3 DEF KeyedAll, Keyed
<1>7. [keyed EXCEPT !.bindings[c] = [keys |-> new, modified |-> TRUE]]
        = [keyed EXCEPT !.asking = NoKeys, !.bindings[c] = [keys |-> new, modified |-> TRUE]]
  <2> DEFINE bs == [keyed.bindings EXCEPT ![c] = [keys |-> new, modified |-> TRUE]]
  <2>1. [keyed EXCEPT !.bindings = bs] = [keyed EXCEPT !.asking = NoKeys, !.bindings = bs]
    <3> HIDE DEF bs
    <3> QED
      BY <1>3 DEF KeyedAll, Keyed
  <2> QED
    BY <2>1, Zenon
<1>8. keyed' = UpdateListLength([keyed EXCEPT !.asking = NoKeys, !.bindings[c] = [keys |-> new, modified |-> TRUE]], c)
  BY <1>2, <1>7, Zenon
<1> QED
  BY <1>1, <1>5, <1>8, EditKeeps

LEMMA OverwriteKeeps ==
  ASSUME KeysGood(keyed), OverwriteKey
  PROVE  Keeps(keyed, keyed')
<1> DEFINE c == keyed.page
           b == keyed.bindings[c]
           i == keyed.asking
<1>1. keyed \in KeyedAll /\ c \in Commands /\ i \in Slots /\ i <= keyed.count + 1
  BY DEF KeysGood, OverwriteKey
<1>2. keyed.bindings # NoKeys /\ SoundBindings(keyed.bindings) /\ RowsRight(keyed, c) /\ b \in Binding /\ Packed(b.keys)
  BY <1>1, NamesDiffer DEF KeysGood, SoundBindings, Bindings
<1>3. CASE keyed' = [keyed EXCEPT !.asking = NoKeys]
  <2>1. keyed' \in KeyedAll
    BY <1>1, <1>3 DEF KeyedAll, Keyed
  <2>2. /\ keyed'.global = keyed.global /\ keyed'.bindings = keyed.bindings /\ keyed'.file = keyed.file
        /\ keyed'.checking = keyed.checking /\ keyed'.page = keyed.page /\ keyed'.last = keyed.last /\ keyed'.listed = keyed.listed
        /\ keyed'.count = keyed.count /\ keyed'.marked = keyed.marked /\ keyed'.cursor = keyed.cursor /\ keyed'.asking = NoKeys
    BY <1>1, <1>3 DEF KeyedAll, Keyed
  <2>3. keyed.last # "list" => RowsRight(keyed', keyed'.last)
    BY <2>2 DEF KeysGood, RowsRight
  <2> QED
    BY <2>1, <2>2, <2>3 DEF KeysGood, Keeps, Bound
<1>4. CASE \E k \in Keys : /\ FindKey(keyed.bindings, k) = NoKeys
                           /\ keyed' = UpdateListLength(
                                [keyed EXCEPT !.asking = NoKeys,
                                              !.bindings[c] = [keys |-> [@.keys EXCEPT ![keyed.asking] = k], modified |-> TRUE]], c)
  <2>1. PICK k \in Keys : /\ FindKey(keyed.bindings, k) = NoKeys
                          /\ keyed' = UpdateListLength(
                                [keyed EXCEPT !.asking = NoKeys,
                                              !.bindings[c] = [keys |-> [@.keys EXCEPT ![keyed.asking] = k], modified |-> TRUE]], c)
    BY <1>4, Zenon
  <2> DEFINE new == Overwritten(b.keys, i, k)
  <2>2. keyed' = UpdateListLength([keyed EXCEPT !.asking = NoKeys, !.bindings[c] = [keys |-> new, modified |-> TRUE]], c)
    BY <2>1, Zenon DEF Overwritten
  <2>3. i <= GetKeyCount(b) + 1
    BY <1>1, <1>2 DEF RowsRight
  <2>4. /\ new \in [Slots -> Keys \cup {0}] /\ Packed(new)
        /\ \A l \in Keys : (\E j \in Slots : new[j] = l) => HasKey(b, l) \/ l = k
    BY <1>1, <1>2, <2>3, OverwriteFacts
  <2>5. \A d \in Commands : ~HasKey(keyed.bindings[d], k)
    BY <2>1, FindFacts
  <2> HIDE DEF new
  <2> QED
    BY <1>1, <2>2, <2>4, <2>5, EditKeeps, Zenon
<1> QED
  BY <1>3, <1>4, Zenon DEF OverwriteKey

LEMMA EditCommandKeeps ==
  ASSUME KeysGood(keyed), keyed.asking = NoKeys, EditCommand
  PROVE  Keeps(keyed, keyed')
<1>1. PICK c \in Commands : keyed' = UpdateListLength([keyed EXCEPT !.page = c, !.last = c], c)
  BY DEF EditCommand
<1> DEFINE m == [keyed EXCEPT !.page = c, !.last = c]
<1>2. keyed \in KeyedAll /\ keyed.page = "list" /\ keyed.bindings # NoKeys /\ SoundBindings(keyed.bindings)
  BY NamesDiffer DEF KeysGood, EditCommand
<1>3. m \in KeyedAll
  BY <1>2 DEF KeyedAll, Keyed
<1>4. m.bindings = keyed.bindings /\ m.asking = NoKeys /\ m.page = c /\ m.last = c /\ SameKeys(keyed, m)
  BY <1>2 DEF KeyedAll, Keyed, SameKeys
<1>5. keyed' = UpdateListLength(m, c)
  BY <1>1
<1> HIDE DEF m
<1>6. KeysGood(keyed') /\ keyed'.bindings = keyed.bindings
  BY <1>2, <1>3, <1>4, <1>5, ShownGood
<1> QED
  BY <1>2, <1>6 DEF Keeps, Bound

\* Steps which only move on the page or between pages
LEMMA MoveKeeps ==
  ASSUME KeysGood(keyed), keyed.asking = NoKeys \/ CloseKeys, 
         CloseKeys \/ MoveToKey \/ ChangeKey \/ AddKey \/ (OpenKeys /\ keyed.last # "list")
  PROVE  Keeps(keyed, keyed')
<1>1. keyed \in KeyedAll
  BY DEF KeysGood
<1>2. CASE CloseKeys
  <2>1. keyed' = [keyed EXCEPT !.page = NoKeys, !.asking = NoKeys]
    BY <1>2 DEF CloseKeys
  <2>2. keyed' \in KeyedAll
    BY <1>1, <2>1 DEF KeyedAll, Keyed
  <2>3. /\ keyed'.global = keyed.global /\ keyed'.bindings = keyed.bindings /\ keyed'.file = keyed.file
        /\ keyed'.checking = keyed.checking /\ keyed'.page = NoKeys /\ keyed'.last = keyed.last /\ keyed'.listed = keyed.listed
        /\ keyed'.count = keyed.count /\ keyed'.marked = keyed.marked /\ keyed'.cursor = keyed.cursor /\ keyed'.asking = NoKeys
    BY <1>1, <2>1 DEF KeyedAll, Keyed
  <2>4. keyed.last # "list" => RowsRight(keyed', keyed'.last)
    BY <2>3 DEF KeysGood, RowsRight
  <2> QED
    BY <2>2, <2>3, <2>4, NamesDiffer DEF KeysGood, Keeps, Bound
<1>3. CASE OpenKeys /\ keyed.last # "list"
  <2>1. keyed' = [keyed EXCEPT !.page = keyed.last] /\ keyed.page = NoKeys
    BY <1>3 DEF OpenKeys
  <2>2. keyed' \in KeyedAll /\ keyed.last \in Commands
    BY <1>1, <1>3, <2>1 DEF KeyedAll, Keyed
  <2>3. /\ keyed'.global = keyed.global /\ keyed'.bindings = keyed.bindings /\ keyed'.file = keyed.file
        /\ keyed'.checking = keyed.checking /\ keyed'.page = keyed.last /\ keyed'.last = keyed.last /\ keyed'.listed = keyed.listed
        /\ keyed'.count = keyed.count /\ keyed'.marked = keyed.marked /\ keyed'.cursor = keyed.cursor /\ keyed'.asking = keyed.asking
    BY <1>1, <2>1 DEF KeyedAll, Keyed
  <2>4. RowsRight(keyed', keyed'.last)
    BY <1>3, <2>3 DEF KeysGood, RowsRight
  <2> QED
    BY <1>3, <2>1, <2>2, <2>3, <2>4, NamesDiffer DEF KeysGood, Keeps, Bound
<1>4. CASE MoveToKey
  <2>1. PICK i \in 0..LastPosition(keyed.count) : keyed' = [keyed EXCEPT !.cursor = i]
    BY <1>4 DEF MoveToKey
  <2>2. i \in 0..MaxKeys + 1
    BY <1>1, KeysAre DEF KeyedAll, Keyed, LastPosition, AddPosition
  <2>3. keyed' \in KeyedAll
    BY <1>1, <2>1, <2>2 DEF KeyedAll, Keyed
  <2>4. /\ keyed'.global = keyed.global /\ keyed'.bindings = keyed.bindings /\ keyed'.file = keyed.file
        /\ keyed'.checking = keyed.checking /\ keyed'.page = keyed.page /\ keyed'.last = keyed.last /\ keyed'.listed = keyed.listed
        /\ keyed'.count = keyed.count /\ keyed'.marked = keyed.marked /\ keyed'.cursor = i /\ keyed'.asking = keyed.asking
    BY <1>1, <2>1 DEF KeyedAll, Keyed
  <2>5. keyed.last # "list" => RowsRight(keyed', keyed'.last)
    BY <2>4 DEF KeysGood, RowsRight
  <2> QED
    BY <2>3, <2>4, <2>5 DEF KeysGood, Keeps, Bound
<1>5. CASE ChangeKey \/ AddKey
  <2>1. keyed.page \in Commands /\ \E i \in Slots : i <= keyed.count + 1 /\ keyed' = [keyed EXCEPT !.asking = i]
    <3>1. CASE ChangeKey
      <4>1. keyed.cursor \in Slots /\ keyed.cursor <= keyed.count + 1
        BY <1>1, <3>1, KeysAre DEF ChangeKey, IsKeyPosition, LeavePosition, AddPosition, KeyedAll, Keyed
      <4> QED
        BY <3>1, <4>1 DEF ChangeKey
    <3>2. CASE AddKey
      <4>1. keyed.count + 1 \in Slots /\ keyed.count + 1 <= keyed.count + 1
        BY <1>1, <3>2, KeysAre DEF AddKey, KeyedAll, Keyed
      <4> QED
        BY <3>2, <4>1 DEF AddKey
    <3> QED
      BY <1>5, <3>1, <3>2
  <2>2. PICK i \in Slots : i <= keyed.count + 1 /\ keyed' = [keyed EXCEPT !.asking = i]
    BY <2>1
  <2>3. keyed' \in KeyedAll
    BY <1>1, <2>2 DEF KeyedAll, Keyed
  <2>4. /\ keyed'.global = keyed.global /\ keyed'.bindings = keyed.bindings /\ keyed'.file = keyed.file
        /\ keyed'.checking = keyed.checking /\ keyed'.page = keyed.page /\ keyed'.last = keyed.last /\ keyed'.listed = keyed.listed
        /\ keyed'.count = keyed.count /\ keyed'.marked = keyed.marked /\ keyed'.cursor = keyed.cursor /\ keyed'.asking = i
    BY <1>1, <2>2 DEF KeyedAll, Keyed
  <2>5. keyed.last # "list" => RowsRight(keyed', keyed'.last)
    BY <2>4 DEF KeysGood, RowsRight
  <2> QED
    BY <2>1, <2>2, <2>3, <2>4, <2>5 DEF KeysGood, Keeps, Bound
<1> QED
  BY <1>2, <1>3, <1>4, <1>5

\* OnCheckKeyBindings(): the timer stops only when there is no conflict.
LEMMA CheckKeeps ==
  ASSUME KeysGood(keyed), OnCheckKeyBindings
  PROVE  Keeps(keyed, keyed')
<1> DEFINE again == ~Check(keyed.global)
<1>1. keyed' = [keyed EXCEPT !.checking = again] /\ keyed \in KeyedAll /\ again \in BOOLEAN /\ (~again => Check(keyed.global))
  <2>1. keyed' = [keyed EXCEPT !.checking = again]
    BY Zenon DEF OnCheckKeyBindings
  <2>2. again \in BOOLEAN
    OBVIOUS
  <2> QED
    BY <2>1, <2>2 DEF KeysGood
<1> HIDE DEF again
<1>2. keyed' \in KeyedAll
  BY <1>1 DEF KeyedAll, Keyed
<1>3. /\ keyed'.global = keyed.global /\ keyed'.bindings = keyed.bindings /\ keyed'.file = keyed.file
      /\ keyed'.checking = again /\ keyed'.page = keyed.page /\ keyed'.last = keyed.last /\ keyed'.listed = keyed.listed
      /\ keyed'.count = keyed.count /\ keyed'.marked = keyed.marked /\ keyed'.cursor = keyed.cursor /\ keyed'.asking = keyed.asking
  BY <1>1 DEF KeyedAll, Keyed
<1>4. keyed.last # "list" => RowsRight(keyed', keyed'.last)
  BY <1>3 DEF KeysGood, RowsRight
<1> QED
  BY <1>1, <1>2, <1>3, <1>4 DEF KeysGood, Keeps, Bound

LEMMA ListKeeps ==
  ASSUME KeysGood(keyed), keyed' = OpenList(keyed)
  PROVE  Keeps(keyed, keyed')
<1>1. KeysGood(keyed') /\ keyed'.bindings = Bound(keyed)
  BY ListGood DEF Bound
<1>2. Bound(keyed) # NoKeys
  BY NamesDiffer DEF KeysGood, SoundBindings, Bound
<1> QED
  BY <1>1, <1>2 DEF Keeps, Bound

LEMMA AppliedKeeps ==
  ASSUME KeysGood(keyed), keyed.page # NoKeys, keyed' = Applied(keyed) \/ keyed' = Saved(Applied(keyed))
  PROVE  Keeps(keyed, keyed')
<1> DEFINE s == Applied(keyed)
<1>1. keyed.bindings # NoKeys /\ KeysGood(s) /\ s.bindings = keyed.bindings
  BY AppliedGood DEF KeysGood
<1> HIDE DEF s
<1>2. keyed' = s \/ keyed' = Saved(s)
  BY DEF s
<1>3. KeysGood(keyed') /\ keyed'.bindings = keyed.bindings
  BY <1>1, <1>2, SavedGood
<1> QED
  BY <1>1, <1>3 DEF Keeps, Bound

LEMMA StepKeeps ==
  ASSUME ~Remote, KeysGood(keyed), KeysNext
  PROVE  KeysGood(keyed') /\ (Restart \/ Keeps(keyed, keyed'))
<1>1. CASE OpenKeys
  <2>1. CASE keyed.last = "list"
    <3>1. keyed' = OpenList(keyed)
      BY <1>1, <2>1 DEF OpenKeys
    <3> QED
      BY <3>1, ListKeeps DEF Keeps
  <2>2. CASE keyed.last # "list"
    <3>1. keyed.asking = NoKeys
      BY <1>1, NamesDiffer DEF OpenKeys, KeysGood
    <3> QED
      BY <1>1, <2>2, <3>1, MoveKeeps DEF Keeps
  <2> QED
    BY <2>1, <2>2
<1>2. CASE CloseKeys
  BY <1>2, MoveKeeps DEF Keeps
<1>3. CASE EditCommand
  <2>1. keyed.asking = NoKeys
    BY <1>3 DEF EditCommand, Commanded
  <2> QED
    BY <1>3, <2>1, EditCommandKeeps DEF Keeps
<1>4. CASE MoveToKey
  <2>1. keyed.asking = NoKeys
    BY <1>4 DEF MoveToKey, Commanded
  <2> QED
    BY <1>4, <2>1, MoveKeeps DEF Keeps
<1>5. CASE GoBackToList
  <2>1. keyed' = OpenList(keyed)
    BY <1>5 DEF GoBackToList
  <2> QED
    BY <2>1, ListKeeps DEF Keeps
<1>6. CASE DeleteKey
  <2>1. keyed.asking = NoKeys
    BY <1>6 DEF DeleteKey, Commanded
  <2> QED
    BY <1>6, <2>1, DeleteKeeps DEF Keeps
<1>7. CASE ChangeKey
  <2>1. keyed.asking = NoKeys
    BY <1>7 DEF ChangeKey
  <2> QED
    BY <1>7, <2>1, MoveKeeps DEF Keeps
<1>8. CASE AddKey
  <2>1. keyed.asking = NoKeys
    BY <1>8 DEF AddKey
  <2> QED
    BY <1>8, <2>1, MoveKeeps DEF Keeps
<1>9. CASE OverwriteKey
  BY <1>9, OverwriteKeeps DEF Keeps
<1>10. CASE Apply
  <2>1. keyed.page # NoKeys /\ keyed' = Applied(keyed)
    BY <1>10, NamesDiffer DEF Apply
  <2> QED
    BY <2>1, AppliedKeeps DEF Keeps
<1>11. CASE Save
  <2>1. keyed.page # NoKeys /\ (keyed' = Applied(keyed) \/ keyed' = Saved(Applied(keyed)))
    BY <1>11, Zenon DEF Save
  <2> QED
    BY <2>1, AppliedKeeps DEF Keeps
<1>12. CASE OnCheckKeyBindings
  BY <1>12, CheckKeeps DEF Keeps
<1>13. CASE Restart
  <2>1. keyed' = Start(keyed.file) /\ SoundFile(keyed.file)
    BY <1>13 DEF Restart, KeysGood
  <2> QED
    BY <1>13, <2>1, StartGood
<1> QED
  BY <1>1, <1>2, <1>3, <1>4, <1>5, <1>6, <1>7, <1>8, <1>9, <1>10, <1>11, <1>12, <1>13 DEF KeysNext

\* What is saved returns, if there are names for all the keys.
LEMMA SavesAreRead ==
  ASSUME KeysGood(keyed), \A k \in Keys : Nameable(k), Save, keyed'.file # keyed.file, NEW c \in Commands
  PROVE  FirstKeys(ParseFile(keyed'.file)[c]) = FirstKeys(keyed'.global[c])
<1> DEFINE s == Applied(keyed)
<1>1. keyed.page # NoKeys /\ (keyed' = s \/ keyed' = Saved(s))
  BY Zenon DEF Save
<1>2. KeysGood(s) /\ s.file = keyed.file
  BY <1>1, AppliedGood
<1> HIDE DEF s
<1>3. keyed' = Saved(s)
  BY <1>1, <1>2
<1>4. keyed'.global = s.global /\ keyed'.file = WriteToFile(s.global)
  BY <1>2, <1>3, SavedGood
<1>5. SoundBindings(s.global)
  BY <1>2 DEF KeysGood
<1> QED
  BY <1>4, <1>5, WriteFacts

\* The rows are true, and conflicts are reported.
LEMMA GoodIsKept ==
  ASSUME KeysGood(keyed)
  PROVE  KeysTypeOK /\ RowsTrue /\ ConflictsReported
<1>1. KeysTypeOK /\ ConflictsReported
  <2>1. IsFile(keyed.file)
    BY FileFacts DEF KeysGood
  <2>2. keyed \in Keyed({keyed.file})
    BY DEF KeysGood, KeyedAll, Keyed
  <2> QED
    BY <2>1, <2>2 DEF KeysGood, KeysTypeOK, ConflictsReported
<1>2. keyed.page = "list" => keyed.listed = {c \in Commands : HasConflict(keyed.bindings, c)}
  BY DEF KeysGood
<1>3. ASSUME keyed.page \in Commands
      PROVE  /\ {KeyRows(keyed)[i] : i \in 1..keyed.count} =
                  {[key |-> k, alert |-> FindKey(keyed.bindings, k) # keyed.page]
                     : k \in {k \in Keys : HasKey(keyed.bindings[keyed.page], k)}}
             /\ keyed.cursor <= LastPosition(keyed.count)
  <2>1. keyed \in KeyedAll /\ SoundBindings(keyed.bindings) /\ RowsRight(keyed, keyed.page)
    BY <1>3, NamesDiffer DEF KeysGood
  <2> QED
    BY <1>3, <2>1, RowsFacts, Zenon
<1> QED
  BY <1>1, <1>2, <1>3, Zenon DEF RowsTrue

\* The table of keys stays one that shows what it is, that has no conflict but those it
\* began with, and that can be read again (KeysKept), for any commands, keys and files.  Two
\* things the user can do are excluded: to press a key whose name is not read back, Ctrl-? or
\* Alt- with a character below @; and to delete a key by remote control while a dialog
\* asks for one, which leaves a slot without a key.
THEOREM KeysAreKept == KeysSpec /\ ~Remote /\ (\A k \in Keys : Nameable(k)) => KeysKept
<1> SUFFICES ASSUME ~Remote, \A k \in Keys : Nameable(k)
             PROVE  KeysSpec => KeysKept
  OBVIOUS
<1> DEFINE Inv == KeysGood(keyed)
           Same == Current' = Current
           Saves == keyed'.file # keyed.file /\ Save =>
                      \A c \in Commands : FirstKeys(ParseFile(keyed'.file)[c]) = FirstKeys(keyed'.global[c])
           Shares == Current' # Current => \A c, d \in Commands : \A k \in Keys :
                       c # d /\ HasKey(Current'[c], k) /\ HasKey(Current'[d], k) /\ ~Restart =>
                         (HasKey(Current[c], k) /\ HasKey(Current[d], k)) \/ keyed'.bindings = NoKeys
<1>1. KeysInit => Inv
  BY InitGood
<1>2. Inv /\ [KeysNext]_keyed => Inv'
  <2>1. CASE KeysNext
    BY <2>1, StepKeeps
  <2>2. CASE UNCHANGED keyed
    BY <2>2
  <2> QED
    BY <2>1, <2>2
<1>3. Inv => KeysTypeOK /\ RowsTrue /\ ConflictsReported
  BY GoodIsKept
<1>4. Inv /\ [KeysNext]_keyed => [Shares]_keyed
  <2> SUFFICES ASSUME Inv, KeysNext
               PROVE  Shares
    OBVIOUS
  <2>1. Restart \/ Keeps(keyed, keyed')
    BY StepKeeps
  <2>2. Current = Bound(keyed) /\ Current' = Bound(keyed')
    BY DEF Current, Bound
  <2> QED
    BY <2>1, <2>2 DEF Keeps, NoneShared
<1>5. Inv /\ [KeysNext]_keyed => [Saves]_keyed
  <2> SUFFICES ASSUME Inv, KeysNext, keyed'.file # keyed.file, Save, NEW c \in Commands
               PROVE  FirstKeys(ParseFile(keyed'.file)[c]) = FirstKeys(keyed'.global[c])
    OBVIOUS
  <2> QED
    BY SavesAreRead
<1> QED
  BY <1>1, <1>2, <1>3, <1>4, <1>5, PTL DEF KeysSpec, KeysKept, NoNewConflict, SavedKeysReturn
=============================================================================
