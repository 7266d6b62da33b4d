----------------------------- MODULE Pages_proofs -----------------------------
(***************************************************************************)
(* Proofs about saving the queue as a playlist (SavePlaylist), for any     *)
(* names, whatever MPD answers and whatever others do meanwhile.           *)
(*                                                                         *)
(* The coroutine leaves no error on the connection where it waits, and it  *)
(* reaches "rm" only through an answer of the user: that is the inductive  *)
(* invariant, from which both promises of SavedAsAgreed follow.            *)
(*                                                                         *)
(* Proofs about the lyrics page (Lyrics), for any songs, files and chain   *)
(* of plugins: the page is a set of lines and files about one song and a   *)
(* chain that is calm, has failed or works, with one process (PageOK).     *)
(*                                                                         *)
(* Proofs about the playlist editor (PlaylistEditor), for any songs,       *)
(* playlists and other clients: as long as nothing is on its way to the    *)
(* page, its list is the playlist and the cursor on the selected song      *)
(* (EditSafe), however often a reload leaves idle mode and so starts       *)
(* another one.                                                            *)
(***************************************************************************)
EXTENDS SavePlaylist, Lyrics, PlaylistEditor, SequenceTheorems, TLAPS

-----------------------------------------------------------------------------
(* The invariant *)

\* The types of the coroutine's state, and of what is stored
Savings ==
    [stored : [PlaylistNames -> Contents], conn : BOOLEAN, error : BOOLEAN,
     pc : {"done", "name", "send", "replace", "remove"}, name : PlaylistNames \cup {NoName},
     agreed : BOOLEAN, saved : PlaylistNames \cup {NoName}, news : BOOLEAN]

\* What every step of saving keeps: nothing is said to be saved while the coroutine is at work,
\* and it removes only what the user has agreed to.
SaveInvOf(s) ==
    /\ s \in Savings
    /\ s.pc \in {"done", "name"} <=> s.name = NoName
    /\ s.error = FALSE
    /\ s.pc # "done" => s.saved = NoName
    /\ s.pc = "remove" => s.agreed = TRUE
    /\ s.saved # NoName => s.stored[s.saved] = "queue" /\ s.news = TRUE
SaveInv == SaveInvOf(saving)

\* What MPD stores under one name is changed.
SetStored(s, n, x) == [s EXCEPT !.stored[n] = x]

-----------------------------------------------------------------------------
(* How the coroutine ends *)

\* Without a message: Done() only forgets where the coroutine was.
LEMMA DoneIsKept ==
    ASSUME NEW s, s \in Savings, s.saved # NoName => s.stored[s.saved] = "queue" /\ s.news = TRUE, s.error = FALSE,
           NEW t, t = Done(s)
    PROVE  SaveInvOf(t) /\ t.stored = s.stored
<1>1. t \in Savings
  BY DEF Done, Savings
<1>2. t.stored = s.stored /\ t.pc = "done" /\ t.name = NoName /\ t.saved = s.saved
  BY DEF Done, Savings
<1>3. t.error = s.error
  BY DEF Done, Savings
<1>4. t.news = s.news
  BY DEF Done, Savings
<1> QED
  BY <1>1, <1>2, <1>3, <1>4 DEF SaveInvOf

\* "save" and "rm" change nothing but what is stored under the name they are given.
LEMMA StoredSet ==
    ASSUME NEW s \in Savings, NEW n \in PlaylistNames, NEW x \in Contents, NEW t, t = SetStored(s, n, x)
    PROVE  /\ t \in Savings /\ t.stored = [s.stored EXCEPT ![n] = x]
           /\ \A k \in {"conn", "error", "pc", "name", "agreed", "saved", "news"} : t[k] = s[k]
<1>1. t \in Savings
  BY DEF SetStored, Savings
<1>2. t.stored = [s.stored EXCEPT ![n] = x]
  BY DEF SetStored, Savings
<1>3. \A k \in {"conn", "error", "pc", "name", "agreed", "saved", "news"} : t[k] = s[k]
  BY DEF SetStored, Savings
<1> QED BY <1>1, <1>2, <1>3

\* With the message "Saved": what it names is the queue, as MPD has just stored it.
LEMMA SuccessIsKept ==
    ASSUME NEW s \in Savings, s.name \in PlaylistNames, s.error = FALSE, NEW t, t = Success(SetStored(s, s.name, "queue"))
    PROVE  SaveInvOf(t) /\ t.stored = [s.stored EXCEPT ![s.name] = "queue"]
<1> DEFINE a == SetStored(s, s.name, "queue")
           b == [a EXCEPT !.news = TRUE, !.saved = a.name]
<1>1. "queue" \in Contents
  BY DEF Contents
<1>2. /\ a \in Savings /\ a.stored = [s.stored EXCEPT ![s.name] = "queue"]
      /\ \A k \in {"conn", "error", "pc", "name", "agreed", "saved", "news"} : a[k] = s[k]
  BY <1>1, StoredSet
<1>3. t = Done(b)
  BY DEF Success
<1> HIDE DEF a
<1>4. a.name = s.name /\ a.stored[s.name] = "queue"
  <2>1. a.name = s.name
    BY <1>2
  <2> QED
    BY <1>2, <2>1 DEF Savings
<1>5. a.error = FALSE
  BY <1>2
<1>6. b \in Savings
  BY <1>2, <1>4 DEF Savings
<1>7. b.stored = a.stored /\ b.saved = a.name
  BY <1>2 DEF Savings
<1>8. b.error = FALSE
  BY <1>2, <1>5 DEF Savings
<1>9. b.news = TRUE
  BY <1>2 DEF Savings
<1> HIDE DEF b
<1>10. SaveInvOf(t) /\ t.stored = b.stored
  BY <1>3, <1>4, <1>6, <1>7, <1>8, <1>9, DoneIsKept
<1> QED
  BY <1>2, <1>7, <1>10

\* With an error: it is cleared, or the connection is closed, and nothing is said to be saved.
LEMMA ErrorIsHandled ==
    ASSUME NEW s \in Savings, s.saved = NoName, NEW t \in HandleError([s EXCEPT !.error = TRUE])
    PROVE  SaveInvOf(t) /\ t.stored = s.stored
<1> DEFINE a == [s EXCEPT !.error = FALSE]
           b == [s EXCEPT !.error = FALSE, !.conn = FALSE]
<1>1. t = Done(a) \/ t = Done(b)
  <2> DEFINE e == [s EXCEPT !.error = TRUE]
  <2>1. [e EXCEPT !.error = FALSE] = a
    BY DEF Savings
  <2>2. [e EXCEPT !.error = FALSE, !.conn = FALSE] = b
    BY DEF Savings
  <2>3. t = Done([e EXCEPT !.error = FALSE]) \/ t = Done([e EXCEPT !.error = FALSE, !.conn = FALSE])
    BY DEF HandleError
  <2> HIDE DEF e
  <2> QED
    BY <2>1, <2>2, <2>3
<1>2. a \in Savings /\ a.saved = NoName /\ a.stored = s.stored
  BY DEF Savings
<1>3. b \in Savings /\ b.saved = NoName /\ b.stored = s.stored
  BY DEF Savings
<1>4. a.error = FALSE
  BY DEF Savings
<1>5. b.error = FALSE
  BY DEF Savings
<1> HIDE DEF a, b
<1>6. ASSUME t = Done(a) PROVE SaveInvOf(t) /\ t.stored = s.stored
  BY <1>2, <1>4, <1>6, DoneIsKept
<1>7. ASSUME t = Done(b) PROVE SaveInvOf(t) /\ t.stored = s.stored
  BY <1>3, <1>5, <1>7, DoneIsKept
<1> QED
  BY <1>1, <1>6, <1>7

-----------------------------------------------------------------------------
(* The steps *)

\* Nothing has been saved, and no coroutine runs.
LEMMA SaveInvInit == SaveInit => SaveInv
<1> SUFFICES ASSUME SaveInit PROVE SaveInv
  OBVIOUS
<1>1. PICK s \in [PlaylistNames -> {"none", "old"}] :
        saving = [stored |-> s, conn |-> TRUE, error |-> FALSE,
                  pc |-> "done", name |-> NoName, agreed |-> FALSE, saved |-> NoName, news |-> FALSE]
  BY DEF SaveInit
<1>2. s \in [PlaylistNames -> Contents]
  BY DEF Contents
<1>3. saving \in Savings
  BY <1>1, <1>2 DEF Savings
<1>4. saving.error = FALSE
  BY <1>1
<1> QED
  BY <1>1, <1>3, <1>4 DEF SaveInv, SaveInvOf

\* What a step does to what is stored, and whether the user has agreed to it
Agreed ==
    \A n \in PlaylistNames :
        saving.stored[n] # "none" /\ saving'.stored[n] # saving.stored[n]
            => Others \/ (n = saving.name /\ saving.agreed)

\* LIST_SAVE starts the coroutine, which has stored nothing yet.
LEMMA StartSavingStep == ASSUME SaveInv, Start PROVE SaveInv' /\ saving'.stored = saving.stored
<1>0. saving \in Savings /\ saving.error = FALSE
  BY DEF SaveInv, SaveInvOf
<1>1. PICK n \in PlaylistNames \cup {NoName} :
        saving' = [saving EXCEPT !.name = n, !.saved = NoName, !.news = FALSE,
                                 !.pc = IF n = NoName THEN "name" ELSE "send"]
  BY DEF Start
<1>2. saving' \in Savings
  BY <1>0, <1>1 DEF Savings
<1>3. /\ saving'.name = n /\ saving'.saved = NoName /\ saving'.pc = (IF n = NoName THEN "name" ELSE "send")
      /\ saving'.stored = saving.stored
  BY <1>0, <1>1 DEF Savings
<1>4. saving'.error = FALSE
  BY <1>0, <1>1 DEF Savings
<1> QED
  BY <1>2, <1>3, <1>4 DEF SaveInv, SaveInvOf

\* The user enters a name, or none.
LEMMA EnterNameStep == ASSUME SaveInv, EnterName PROVE SaveInv' /\ saving'.stored = saving.stored
<1>0. saving \in Savings /\ saving.error = FALSE /\ saving.saved = NoName /\ saving.pc = "name"
  BY DEF SaveInv, SaveInvOf, EnterName
<1>1. PICK n \in PlaylistNames \cup {NoName} :
        saving' = IF n = NoName THEN Done(saving) ELSE [saving EXCEPT !.name = n, !.pc = "send"]
  BY DEF EnterName
<1>2. CASE n = NoName
  BY <1>0, <1>1, <1>2, DoneIsKept DEF SaveInv
<1>3. CASE n # NoName
  <2>1. saving' = [saving EXCEPT !.name = n, !.pc = "send"]
    BY <1>1, <1>3
  <2>2. saving' \in Savings
    BY <1>0, <2>1 DEF Savings
  <2>3. saving'.name = n /\ saving'.saved = NoName /\ saving'.pc = "send" /\ saving'.stored = saving.stored
    BY <1>0, <2>1 DEF Savings
  <2>4. saving'.error = FALSE
    BY <1>0, <2>1 DEF Savings
  <2> QED
    BY <1>3, <2>2, <2>3, <2>4 DEF SaveInv, SaveInvOf
<1> QED BY <1>2, <1>3

\* "save" stores only where nothing is stored; otherwise the user is asked.
LEMMA SaveStep == ASSUME SaveInv, Save PROVE SaveInv' /\ Agreed
<1>0. /\ saving \in Savings /\ saving.error = FALSE /\ saving.saved = NoName /\ saving.pc = "send"
      /\ saving.name \in PlaylistNames
  BY DEF SaveInv, SaveInvOf, Save, Savings
<1>1. CASE saving' = Done(saving)
  BY <1>0, <1>1, DoneIsKept DEF SaveInv, Agreed
<1>2. CASE saving.stored[saving.name] = "none" /\ saving' = Success([saving EXCEPT !.stored[saving.name] = "queue"])
  <2>1. saving' = Success(SetStored(saving, saving.name, "queue"))
    BY <1>2 DEF SetStored
  <2>2. SaveInvOf(saving') /\ saving'.stored = [saving.stored EXCEPT ![saving.name] = "queue"]
    BY <1>0, <2>1, SuccessIsKept
  <2>3. Agreed
    BY <1>0, <1>2, <2>2 DEF Agreed, Savings
  <2> QED
    BY <2>2, <2>3 DEF SaveInv
<1>3. CASE saving' = [saving EXCEPT !.pc = "replace"]
  <2>1. saving' \in Savings
    BY <1>0, <1>3 DEF Savings
  <2>2. saving'.name = saving.name /\ saving'.saved = NoName /\ saving'.pc = "replace" /\ saving'.stored = saving.stored
    BY <1>0, <1>3 DEF Savings
  <2>3. saving'.error = FALSE
    BY <1>0, <1>3 DEF Savings
  <2>4. NoName \notin PlaylistNames
    BY SaveAssumption
  <2>5. SaveInvOf(saving')
    BY <1>0, <2>1, <2>2, <2>3, <2>4 DEF SaveInvOf
  <2> QED
    BY <2>2, <2>5 DEF SaveInv, Agreed
<1>4. CASE saving' \in HandleError([saving EXCEPT !.error = TRUE])
  <2>1. SaveInvOf(saving') /\ saving'.stored = saving.stored
    BY <1>0, <1>4, ErrorIsHandled
  <2> QED
    BY <2>1 DEF SaveInv, Agreed
<1> QED
  BY <1>1, <1>2, <1>3, <1>4 DEF Save

\* Only "yes" leads to "rm".
LEMMA AnswerReplaceStep == ASSUME SaveInv, AnswerReplace PROVE SaveInv' /\ saving'.stored = saving.stored
<1>0. /\ saving \in Savings /\ saving.error = FALSE /\ saving.saved = NoName /\ saving.pc = "replace"
      /\ saving.name # NoName
  BY DEF SaveInv, SaveInvOf, AnswerReplace
<1>1. CASE saving' = Done(saving)
  BY <1>0, <1>1, DoneIsKept DEF SaveInv
<1>2. CASE saving' = [saving EXCEPT !.pc = "remove", !.agreed = TRUE]
  <2>1. saving' \in Savings
    BY <1>0, <1>2 DEF Savings
  <2>2. saving'.name = saving.name /\ saving'.saved = NoName /\ saving'.pc = "remove" /\ saving'.stored = saving.stored
    BY <1>0, <1>2 DEF Savings
  <2>3. saving'.error = FALSE
    BY <1>0, <1>2 DEF Savings
  <2>4. saving'.agreed = TRUE
    BY <1>0, <1>2 DEF Savings
  <2> QED
    BY <1>0, <2>1, <2>2, <2>3, <2>4 DEF SaveInv, SaveInvOf
<1> QED
  BY <1>1, <1>2 DEF AnswerReplace

\* "rm" and the second "save" touch only what the user has agreed to, wherever they fail.
LEMMA ReplaceStep == ASSUME SaveInv, Replace PROVE SaveInv' /\ Agreed
<1>0. /\ saving \in Savings /\ saving.error = FALSE /\ saving.saved = NoName /\ saving.pc = "remove"
      /\ saving.name \in PlaylistNames
  BY DEF SaveInv, SaveInvOf, Replace, Savings
<1>a. saving.agreed = TRUE
  BY <1>0 DEF SaveInv, SaveInvOf
<1> DEFINE removed == SetStored(saving, saving.name, "none")
<1>1. "none" \in Contents
  BY DEF Contents
<1>2. /\ removed \in Savings /\ removed.stored = [saving.stored EXCEPT ![saving.name] = "none"]
      /\ \A k \in {"conn", "error", "pc", "name", "agreed", "saved", "news"} : removed[k] = saving[k]
  BY <1>0, <1>1, StoredSet
<1>3. removed.name = saving.name /\ removed.saved = NoName
  BY <1>0, <1>2
<1>4. removed.error = FALSE
  BY <1>0, <1>2
<1>5. \/ saving' = Done(saving)
      \/ saving' = Success([removed EXCEPT !.stored[saving.name] = "queue"])
      \/ saving' \in HandleError([saving EXCEPT !.error = TRUE])
      \/ saving' \in HandleError([removed EXCEPT !.error = TRUE])
  BY DEF Replace, SetStored
<1> HIDE DEF removed
<1>6. CASE saving' = Done(saving)
  BY <1>0, <1>6, DoneIsKept DEF SaveInv, Agreed
<1>7. CASE saving' = Success([removed EXCEPT !.stored[saving.name] = "queue"])
  <2>1. saving' = Success(SetStored(removed, removed.name, "queue"))
    BY <1>3, <1>7 DEF SetStored
  <2>2. SaveInvOf(saving') /\ saving'.stored = [removed.stored EXCEPT ![removed.name] = "queue"]
    BY <1>0, <1>2, <1>3, <1>4, <2>1, SuccessIsKept
  <2>3. \A n \in PlaylistNames : n # saving.name => saving'.stored[n] = saving.stored[n]
    BY <1>0, <1>2, <1>3, <2>2 DEF Savings
  <2> QED
    BY <1>a, <2>2, <2>3 DEF SaveInv, Agreed
<1>8. CASE saving' \in HandleError([saving EXCEPT !.error = TRUE])
  <2>1. SaveInvOf(saving') /\ saving'.stored = saving.stored
    BY <1>0, <1>8, ErrorIsHandled
  <2> QED
    BY <2>1 DEF SaveInv, Agreed
<1>9. CASE saving' \in HandleError([removed EXCEPT !.error = TRUE])
  <2>1. SaveInvOf(saving') /\ saving'.stored = removed.stored
    BY <1>2, <1>3, <1>9, ErrorIsHandled
  <2>2. \A n \in PlaylistNames : n # saving.name => saving'.stored[n] = saving.stored[n]
    BY <1>0, <1>2, <2>1 DEF Savings
  <2> QED
    BY <1>a, <2>1, <2>2 DEF SaveInv, Agreed
<1> QED
  BY <1>5, <1>6, <1>7, <1>8, <1>9

\* Other clients change what is stored, but not what the coroutine knows.
LEMMA OthersStep == ASSUME SaveInv, Others PROVE SaveInv' /\ Agreed
<1>0. saving \in Savings /\ saving.error = FALSE
  BY DEF SaveInv, SaveInvOf
<1>1. CASE \E n \in PlaylistNames, x \in {"none", "other"} :
             saving' = [saving EXCEPT !.stored[n] = x, !.saved = NoName]
  <2>1. PICK n \in PlaylistNames, x \in {"none", "other"} :
             saving' = [saving EXCEPT !.stored[n] = x, !.saved = NoName]
    BY <1>1
  <2> DEFINE a == SetStored(saving, n, x)
  <2>2. x \in Contents
    BY DEF Contents
  <2>4. saving' = [a EXCEPT !.saved = NoName] /\ a = SetStored(saving, n, x)
    BY <2>1 DEF SetStored
  <2> HIDE DEF a
  <2>3. /\ a \in Savings /\ a.stored = [saving.stored EXCEPT ![n] = x]
        /\ \A k \in {"conn", "error", "pc", "name", "agreed", "saved", "news"} : a[k] = saving[k]
    BY <1>0, <2>2, <2>4, StoredSet
  <2>5. saving' \in Savings
    BY <2>3, <2>4 DEF Savings
  <2>6. saving'.pc = saving.pc /\ saving'.name = saving.name /\ saving'.saved = NoName
    BY <2>3, <2>4 DEF Savings
  <2>7. saving'.error = FALSE
    BY <1>0, <2>3, <2>4 DEF Savings
  <2>8. saving'.agreed = saving.agreed
    BY <2>3, <2>4 DEF Savings
  <2> QED
    BY <2>5, <2>6, <2>7, <2>8 DEF SaveInv, SaveInvOf, Agreed
<1>2. CASE \E up \in BOOLEAN : saving' = [saving EXCEPT !.conn = up]
  <2>1. PICK up \in BOOLEAN : saving' = [saving EXCEPT !.conn = up]
    BY <1>2
  <2>2. saving' \in Savings
    BY <1>0, <2>1 DEF Savings
  <2>3. \A k \in {"stored", "error", "pc", "name", "agreed", "saved", "news"} : saving'[k] = saving[k]
    BY <1>0, <2>1 DEF Savings
  <2>4. /\ saving'.stored = saving.stored /\ saving'.pc = saving.pc /\ saving'.name = saving.name
        /\ saving'.saved = saving.saved
    BY <2>3
  <2>5. saving'.error = FALSE
    BY <1>0, <2>3
  <2>6. saving'.agreed = saving.agreed
    BY <2>3
  <2>7. saving'.news = saving.news
    BY <2>3
  <2> QED
    BY <2>2, <2>4, <2>5, <2>6, <2>7 DEF SaveInv, SaveInvOf, Agreed
<1> QED
  BY <1>1, <1>2 DEF Others

\* Every step keeps the invariant, and changes what is stored only as agreed.
LEMMA SavingStep == ASSUME SaveInv, [SaveNext]_saving PROVE SaveInv' /\ Agreed
<1>1. CASE Start
  BY <1>1, StartSavingStep DEF Agreed
<1>2. CASE EnterName
  BY <1>2, EnterNameStep DEF Agreed
<1>3. CASE Save
  BY <1>3, SaveStep
<1>4. CASE AnswerReplace
  BY <1>4, AnswerReplaceStep DEF Agreed
<1>5. CASE Replace
  BY <1>5, ReplaceStep
<1>6. CASE CancelSave
  <2>1. /\ saving \in Savings /\ saving.error = FALSE /\ saving.saved = NoName /\ saving' = Done(saving)
    BY <1>6 DEF SaveInv, SaveInvOf, CancelSave
  <2> QED
    BY <2>1, DoneIsKept DEF SaveInv, Agreed
<1>7. CASE Others
  BY <1>7, OthersStep
<1>8. CASE UNCHANGED saving
  BY <1>8 DEF SaveInv, Agreed
<1> QED
  BY <1>1, <1>2, <1>3, <1>4, <1>5, <1>6, <1>7, <1>8 DEF SaveNext

\* The invariant implies the types and the truth of the message.
LEMMA SaveInvIsSound == SaveInv => SaveTypeOK /\ SavedIsStored
<1> SUFFICES ASSUME SaveInv PROVE SaveTypeOK /\ SavedIsStored
  OBVIOUS
<1>1. SaveTypeOK
  BY DEF SaveInv, SaveInvOf, Savings, SaveTypeOK
<1>2. SavedIsStored
  BY DEF SaveInv, SaveInvOf, SavedIsStored
<1> QED BY <1>1, <1>2

-----------------------------------------------------------------------------
(* The theorem *)

\* playlist_save(): while the coroutine waits, anything may happen; still ncmpc replaces or deletes
\* what is stored under a name only when the user has said "yes" to that name, what it says to
\* be saved is stored, and no error is left on the connection while the user is asked.
THEOREM SavesAsAgreed == SaveSpec => SavedAsAgreed
<1>1. SaveInit => SaveInv
  BY SaveInvInit
<1>2. SaveInv /\ [SaveNext]_saving => SaveInv' /\ Agreed
  BY SavingStep
<1>3. SaveInv => SaveTypeOK /\ SavedIsStored
  BY SaveInvIsSound
<1>4. SaveSpec => [](SaveTypeOK /\ SavedIsStored)
  BY <1>1, <1>2, <1>3, PTL DEF SaveSpec
<1>5. SaveSpec => [][Agreed]_saving
  BY <1>1, <1>2, PTL DEF SaveSpec
<1>6. ReplacesOnlyIfAgreed <=> [][Agreed]_saving
  BY DEF ReplacesOnlyIfAgreed, Agreed
<1> QED
  BY <1>4, <1>5, <1>6 DEF SavedAsAgreed

-----------------------------------------------------------------------------
(* The lyrics page.                                                        *)

\* The lines, their title and the files.
Shows(l) ==
    /\ l.text # NoText => l.text.of = l.song
    /\ l.source # "none" => l.text # NoText /\ l.text.from = l.source
    /\ \A s \in Tagged :
          /\ l.file[s] \notin {NoText, EmptyFile} => l.file[s].of = s
          /\ l.legacy[s] # NoText => l.legacy[s].of = s

\* No process but those that were forgotten, no pipe.
Dead(l) ==
    /\ l.pid = 0 /\ l.out = "closed" /\ l.err = "closed"
    /\ ~l.eintr => \A p \in Plugin : l.kid[p] = "none"

Free(l) == ~l.blocked /\ ~l.hung

Calm(l) == ~l.loading /\ ~l.timer /\ ~l.fail /\ Free(l) /\ Dead(l)

\* A chain between two plugins.
Between(l) == l.loading /\ ~l.fail /\ Free(l) /\ l.song # NoTrack /\ Dead(l)

\* A chain that has failed, which it tells its owner later.
Failing(l) == l.loading /\ l.fail /\ Free(l) /\ l.song # NoTrack /\ Dead(l)

\* A chain with a process that has not been reaped.
Working(l) ==
    /\ l.loading /\ ~l.fail /\ l.song # NoTrack
    /\ l.pid \in Plugin /\ l.next = l.pid
    /\ ~l.eintr => \A p \in Plugin : l.kid[p] = "none" <=> p # l.pid

Closed(l) == l.out = "closed" /\ l.err = "closed"

Waiting(l) == (l.blocked <=> Closed(l)) /\ (l.hung => l.blocked)

ChainOK(l) == Calm(l) \/ Failing(l) \/ (Working(l) /\ Waiting(l))

PageOK(l) == l \in Pages /\ Shows(l) /\ ChainOK(l)

LEMMA PluginIs == Len(PluginList) \in Nat /\ \A p \in Plugin : p \in Nat /\ p > 0 /\ PluginList[p] \in PluginNames
  BY LyricsAssumption DEF Plugin, PluginNames

LEMMA NoTextIs ==
    /\ NoText \in [of : {NoTrack}, from : {"none"}]
    /\ EmptyFile \in [of : {NoTrack}, from : {"cache"}]
    /\ \A t \in Texts : t # NoText /\ t # EmptyFile /\ t.of \in Tagged /\ t.of # NoTrack
  BY LyricsAssumption DEF NoText, EmptyFile, Text, Texts

\* What a method of the chain leaves alone.
SameShown(l, k) ==
    /\ k.song = l.song /\ k.text = l.text /\ k.source = l.source
    /\ k.file = l.file /\ k.legacy = l.legacy /\ k.eintr = l.eintr

LEMMA ShowsCarried == ASSUME NEW l, NEW k, SameShown(l, k), Shows(l) PROVE Shows(k)
  BY DEF SameShown, Shows

SameChain(l, k) ==
    /\ k.loading = l.loading /\ k.timer = l.timer /\ k.next = l.next /\ k.pid = l.pid
    /\ k.out = l.out /\ k.err = l.err /\ k.fail = l.fail /\ k.blocked = l.blocked
    /\ k.kid = l.kid /\ k.song = l.song /\ k.hung = l.hung /\ k.eintr = l.eintr

LEMMA ChainCarried == ASSUME NEW l, NEW k, SameChain(l, k)
    PROVE  /\ ChainOK(l) <=> ChainOK(k)
           /\ Between(l) <=> Between(k)
           /\ Calm(l) <=> Calm(k)
  BY DEF SameChain, ChainOK, Calm, Failing, Working, Waiting, Free, Dead, Closed, Between

LEMMA NextPlugin ==
    ASSUME NEW l \in Pages, Between(l), NEW k \in TryNextPlugin(l)
    PROVE  k \in Pages /\ SameShown(l, k) /\ ChainOK(k) /\ Free(k)
  <1>1. CASE l.next >= Len(PluginList)
    <2>1. k = [l EXCEPT !.fail = TRUE]
      BY <1>1 DEF TryNextPlugin
    <2>2. k \in Pages
      BY <2>1 DEF Pages
    <2>3. SameShown(l, k)
      BY <2>1 DEF Pages, SameShown
    <2>4. /\ k.fail /\ k.loading = l.loading /\ k.pid = l.pid /\ k.out = l.out /\ k.err = l.err
          /\ k.kid = l.kid /\ k.song = l.song /\ k.blocked = l.blocked /\ k.hung = l.hung
          /\ k.eintr = l.eintr
      BY <2>1 DEF Pages
    <2>5. Failing(k)
      BY <2>4 DEF Between, Failing, Free, Dead
    <2> QED
      BY <2>2, <2>3, <2>5 DEF ChainOK, Failing
  <1>2. CASE ~(l.next >= Len(PluginList))
    <2> DEFINE n == l.next + 1
    <2>1. n \in Plugin /\ n \in 0..Len(PluginList)
      <3>1. l.next \in Nat
        BY PluginIs DEF Pages
      <3> QED BY <1>2, <3>1, PluginIs DEF Plugin
    <2> DEFINE m == [l EXCEPT !.next = @ + 1]
    <2>2. m = [l EXCEPT !.next = n] /\ k \in LaunchPlugin(m)
      BY <1>2 DEF TryNextPlugin
    <2>3. m \in Pages
      BY <2>1, <2>2 DEF Pages
    <2>4. /\ m.next = n /\ m.fail = l.fail /\ m.loading = l.loading /\ m.pid = l.pid /\ m.out = l.out
          /\ m.err = l.err /\ m.kid = l.kid /\ m.song = l.song /\ m.blocked = l.blocked
          /\ m.hung = l.hung /\ SameShown(l, m)
      BY <2>2 DEF Pages, SameShown
    <2> HIDE DEF m, n
    <2>5. CASE k = [m EXCEPT !.fail = TRUE]
      <3>1. k \in Pages
        BY <2>3, <2>5 DEF Pages
      <3>2. /\ k.fail /\ k.loading = m.loading /\ k.pid = m.pid /\ k.out = m.out /\ k.err = m.err
            /\ k.kid = m.kid /\ k.song = m.song /\ k.blocked = m.blocked /\ k.hung = m.hung
            /\ SameShown(m, k)
        BY <2>3, <2>5 DEF Pages, SameShown
      <3>3. Failing(k)
        BY <2>4, <3>2 DEF Between, Failing, Free, Dead, SameShown
      <3> QED
        BY <2>4, <3>1, <3>2, <3>3 DEF ChainOK, SameShown, Failing
    <2>6. CASE k = [m EXCEPT !.pid = m.next, !.out = "open", !.err = "open", !.kid[m.next] = "running"]
      <3> DEFINE kids == [m.kid EXCEPT ![n] = "running"]
      <3>1. k = [m EXCEPT !.pid = n, !.out = "open", !.err = "open", !.kid = kids]
        BY <2>3, <2>4, <2>6 DEF Pages
      <3>2. kids \in [Plugin -> {"none", "running", "ok", "unavailable", "failed"}]
        BY <2>1, <2>3 DEF Pages
      <3>3. ~m.eintr => \A p \in Plugin : kids[p] = "none" <=> p # n
        BY <2>1, <2>3, <2>4 DEF Between, Dead, Pages, SameShown
      <3> HIDE DEF kids
      <3>4. k \in Pages
        BY <2>1, <2>3, <3>1, <3>2 DEF Pages
      <3>5. /\ k.pid = n /\ k.next = n /\ k.out = "open" /\ k.kid = kids
            /\ k.fail = m.fail /\ k.loading = m.loading /\ k.song = m.song /\ k.blocked = m.blocked
            /\ k.hung = m.hung /\ SameShown(m, k)
        BY <2>3, <2>4, <3>1 DEF Pages, SameShown
      <3>6. Working(k) /\ Free(k) /\ ~Closed(k)
        BY <2>1, <2>4, <3>3, <3>5 DEF Between, Working, Closed, Free, SameShown
      <3> QED
        BY <2>4, <3>4, <3>5, <3>6 DEF ChainOK, Waiting, Free, SameShown
    <2> QED
      BY <2>2, <2>5, <2>6 DEF LaunchPlugin
  <1> QED
    BY <1>1, <1>2

\* Whatever the chain was doing, it is deleted, or waits for ever for its process.
LEMMA CycleStopped ==
    ASSUME NEW l \in Pages, \/ ChainOK(l) /\ ~l.blocked
                            \/ Between(l),
           NEW k \in StopPluginCycle(l)
    PROVE  /\ k \in Pages /\ SameShown(l, k) /\ k.timer = l.timer
           /\ \/ ~k.loading /\ ~k.fail /\ Free(k) /\ Dead(k)
              \/ k.hung /\ ChainOK(k)
           /\ ~(l.pid > 0) => Free(k)
  <1>0. Free(l) /\ 0 \in 0..Len(PluginList) /\ Len(PluginList) \in Nat
    BY PluginIs DEF ChainOK, Calm, Failing, Waiting, Between, Free
  <1>1. ASSUME NEW m \in Pages, SameShown(l, m), m.timer = l.timer, Free(m), k = Deleted(m),
               ~l.eintr => \A p \in Plugin : m.kid[p] = "none"
        PROVE  k \in Pages /\ SameShown(l, k) /\ k.timer = l.timer
               /\ ~k.loading /\ ~k.fail /\ Free(k) /\ Dead(k)
    <2>1. k \in Pages
      BY <1>0, <1>1 DEF Deleted, Pages
    <2>2. /\ k.loading = FALSE /\ k.fail = FALSE /\ k.blocked = m.blocked /\ k.hung = m.hung
          /\ k.timer = m.timer /\ k.pid = 0 /\ k.out = "closed" /\ k.err = "closed"
          /\ k.kid = m.kid /\ SameShown(m, k)
      BY <1>1 DEF Deleted, Pages, SameShown
    <2> QED
      BY <1>1, <2>1, <2>2 DEF SameShown, Free, Dead
  <1>2. CASE k = Deleted(IF l.pid > 0 THEN [l EXCEPT !.kid[l.pid] = "none"] ELSE l)
    <2> DEFINE kids == [l.kid EXCEPT ![l.pid] = "none"]
               m == IF l.pid > 0 THEN [l EXCEPT !.kid = kids] ELSE l
    <2>1. k = Deleted(m)
      BY <1>2 DEF Pages
    <2>2. m \in Pages /\ SameShown(l, m) /\ m.timer = l.timer /\ Free(m)
      <3>1. kids \in [Plugin -> {"none", "running", "ok", "unavailable", "failed"}]
        BY DEF Pages
      <3> HIDE DEF kids
      <3> QED
        BY <1>0, <3>1 DEF Pages, SameShown, Free
    <2>3. ASSUME ~l.eintr PROVE \A p \in Plugin : m.kid[p] = "none"
      <3>1. CASE ~(l.pid > 0)
        <4>1. \A p \in Plugin : l.kid[p] = "none"
          BY <2>3, <3>1, PluginIs DEF ChainOK, Calm, Failing, Between, Working, Dead
        <4> QED
          BY <3>1, <4>1
      <3>2. CASE l.pid > 0
        <4>1. /\ l.pid \in Plugin
              /\ \A p \in Plugin : l.kid[p] = "none" <=> p # l.pid
          BY <2>3, <3>2 DEF ChainOK, Calm, Failing, Between, Working, Dead
        <4>2. \A p \in Plugin : kids[p] = "none"
          BY <4>1 DEF Pages
        <4>3. m.kid = kids
          BY <3>2 DEF Pages
        <4> QED
          BY <4>2, <4>3
      <3> QED
        BY <3>1, <3>2
    <2> HIDE DEF m
    <2> QED
      BY <1>1, <2>1, <2>2, <2>3
  <1>3. CASE k = Deleted(l) /\ KidRunsOf(l) /\ l.eintr
    <2>1. SameShown(l, l)
      BY DEF SameShown
    <2> QED
      BY <1>0, <1>1, <1>3, <2>1
  <1>4. CASE /\ k = [l EXCEPT !.out = "closed", !.err = "closed", !.blocked = TRUE, !.hung = TRUE]
             /\ KidRunsOf(l)
    <2>1. k \in Pages
      BY <1>4 DEF Pages
    <2>2. /\ k.loading = l.loading /\ k.fail = l.fail /\ k.song = l.song /\ k.pid = l.pid
          /\ k.next = l.next /\ k.kid = l.kid /\ k.eintr = l.eintr /\ k.timer = l.timer
          /\ k.out = "closed" /\ k.err = "closed" /\ k.blocked /\ k.hung
          /\ SameShown(l, k)
      BY <1>4 DEF Pages, SameShown
    <2>3. Working(l) /\ l.pid > 0
      BY <1>4 DEF KidRunsOf, ChainOK, Calm, Failing, Between, Dead
    <2>4. Working(k) /\ Waiting(k)
      BY <2>2, <2>3 DEF Working, Waiting, Closed
    <2> QED
      BY <2>1, <2>2, <2>3, <2>4 DEF ChainOK
  <1> QED
    BY <1>2, <1>1, <1>3, <1>4 DEF StopPluginCycle, KidRunsOf

LEMMA CycleStarted ==
    ASSUME NEW l \in Pages, Calm(l), l.song # NoTrack, NEW k \in StartPluginCycle(l)
    PROVE  k \in Pages /\ SameShown(l, k) /\ ChainOK(k) /\ Free(k)
  <1> DEFINE m == [l EXCEPT !.loading = TRUE, !.timer = l.limit]
  <1>1. m \in Pages
    BY DEF Pages
  <1>2. /\ m.loading /\ m.fail = l.fail /\ m.blocked = l.blocked /\ m.song = l.song
        /\ m.pid = l.pid /\ m.out = l.out /\ m.err = l.err /\ m.kid = l.kid
        /\ m.hung = l.hung /\ m.eintr = l.eintr
    BY DEF Pages
  <1>3. SameShown(l, m)
    BY DEF Pages, SameShown
  <1>4. k \in TryNextPlugin(m)
    BY DEF StartPluginCycle
  <1> HIDE DEF m
  <1>5. Between(m)
    BY <1>2 DEF Calm, Between, Free, Dead
  <1>6. k \in Pages /\ SameShown(m, k) /\ ChainOK(k) /\ Free(k)
    BY <1>1, <1>4, <1>5, NextPlugin
  <1> QED
    BY <1>3, <1>6 DEF SameShown

\* The page without a song, once it has been cleared; or it hangs.
LEMMA Cancelled ==
    ASSUME NEW l, PageOK(l), ~l.blocked, NEW k \in Cancel(l)
    PROVE  /\ k.file = l.file /\ k.legacy = l.legacy
           /\ \/ k.hung /\ PageOK(k)
              \/ /\ ~k.hung /\ PageOK(ClearText(k)) /\ Calm(ClearText(k))
                 /\ ClearText(k) = [k EXCEPT !.text = NoText] /\ ClearText(k).text = NoText
                 /\ ClearText(k).song = NoTrack /\ ClearText(k).source = "none"
                 /\ ClearText(k).file = l.file /\ ClearText(k).legacy = l.legacy
                 /\ k.file = ClearText(k).file /\ k.legacy = ClearText(k).legacy
  <1>0. l \in Pages /\ ChainOK(l) /\ Shows(l)
    BY DEF PageOK
  <1>1. PICK m \in IF l.loading THEN StopPluginCycle(l) ELSE {l} :
           IF m.hung THEN k = m ELSE k = [m EXCEPT !.timer = FALSE, !.source = "none", !.song = NoTrack]
    BY DEF Cancel, Then
  <1>2. /\ m \in Pages /\ SameShown(l, m)
        /\ \/ ~m.loading /\ ~m.fail /\ Free(m) /\ Dead(m)
           \/ m.hung /\ ChainOK(m)
    <2>1. CASE l.loading
      BY <1>0, <1>1, <2>1, CycleStopped
    <2>2. CASE ~l.loading
      BY <1>0, <1>1, <2>2 DEF ChainOK, Calm, Failing, Working, SameShown
    <2> QED
      BY <2>1, <2>2
  <1>3. CASE m.hung
    <2>1. k = m /\ ChainOK(k)
      BY <1>1, <1>2, <1>3 DEF Free
    <2>2. Shows(k)
      BY <1>0, <1>2, <2>1, ShowsCarried
    <2> QED
      BY <1>2, <1>3, <2>1, <2>2 DEF PageOK, SameShown
  <1>4. CASE ~m.hung
    <2>0. ~m.loading /\ ~m.fail /\ Free(m) /\ Dead(m)
      BY <1>2, <1>4
    <2>1. k = [m EXCEPT !.timer = FALSE, !.source = "none", !.song = NoTrack]
      BY <1>1, <1>4
    <2>2. k \in Pages
      BY <1>2, <2>1 DEF Pages
    <2>3. /\ k.timer = FALSE /\ k.source = "none" /\ k.song = NoTrack /\ k.loading = m.loading
          /\ k.fail = m.fail /\ k.blocked = m.blocked /\ k.hung = m.hung /\ k.pid = m.pid
          /\ k.out = m.out /\ k.err = m.err /\ k.kid = m.kid /\ k.eintr = m.eintr
          /\ k.file = m.file /\ k.legacy = m.legacy
      BY <1>2, <2>1 DEF Pages
    <2> DEFINE c == [k EXCEPT !.text = NoText]
    <2>4. c \in Pages
      BY <2>2 DEF Pages
    <2>5. /\ c.timer = k.timer /\ c.source = k.source /\ c.song = k.song /\ c.loading = k.loading
          /\ c.fail = k.fail /\ c.blocked = k.blocked /\ c.hung = k.hung /\ c.pid = k.pid
          /\ c.out = k.out /\ c.err = k.err /\ c.kid = k.kid /\ c.eintr = k.eintr
          /\ c.file = k.file /\ c.legacy = k.legacy /\ c.text = NoText
      BY <2>2 DEF Pages
    <2>6. ClearText(k) = c
      BY DEF ClearText
    <2> HIDE DEF c
    <2>7. Calm(c)
      BY <2>0, <2>3, <2>5 DEF Calm, Free, Dead
    <2>8. Shows(c)
      BY <1>0, <1>2, <2>3, <2>5 DEF Shows, SameShown
    <2> QED
      BY <1>2, <1>4, <2>3, <2>4, <2>5, <2>6, <2>7, <2>8 DEF PageOK, ChainOK, SameShown, c
  <1> QED
    BY <1>3, <1>4

\* A page with the files of its song, or without: what the cache has is about the song.
LEMMA CacheIsOwn ==
    ASSUME NEW l \in Pages, Shows(l), NEW s \in Tagged
    PROVE  LoadFile(l, s) # NoText =>
              LoadFile(l, s) \in Texts /\ LoadFile(l, s).of = s /\ LoadFile(l, s).from = "cache"
  <1>1. l.file[s] \in Files /\ l.legacy[s] \in Files
    BY DEF Pages
  <1>2. \A f \in Files : f \notin {NoText, EmptyFile} => f \in Texts /\ f.from = "cache"
    BY DEF Files, Texts
  <1>3. l.legacy[s] # EmptyFile
    <2>1. l.legacy[s] # NoText => l.legacy[s].of = s
      BY DEF Shows
    <2>2. EmptyFile # NoText /\ EmptyFile.of = NoTrack /\ s # NoTrack
      BY LyricsAssumption DEF EmptyFile, NoText, Text
    <2> QED
      BY <2>1, <2>2
  <1> QED
    BY <1>1, <1>2, <1>3 DEF Shows, LoadFile

LEMMA LoadedFromCache ==
    ASSUME NEW l, PageOK(l), l.song # NoTrack
    PROVE  LET k == LoadFromCache(l)
           IN  /\ PageOK(k) /\ k.file = l.file /\ k.legacy = l.legacy
               /\ k.blocked = l.blocked /\ k.hung = l.hung
  <1>0. l \in Pages /\ ChainOK(l) /\ Shows(l) /\ l.song \in Tagged
    BY DEF PageOK, Pages
  <1> DEFINE found == LoadFile(l, l.song)
             k == [l EXCEPT !.source = "cache", !.text = found]
  <1>1. CASE found = NoText
    BY <1>1 DEF LoadFromCache
  <1>2. CASE found # NoText
    <2>1. found \in Texts /\ found.of = l.song /\ found.from = "cache"
      BY <1>0, <1>2, CacheIsOwn
    <2>2. LoadFromCache(l) = k
      BY <1>2 DEF LoadFromCache
    <2> HIDE DEF found
    <2>3. k \in Pages
      BY <1>0, <2>1 DEF Pages
    <2>4. /\ k.source = "cache" /\ k.text = found /\ k.song = l.song
          /\ k.file = l.file /\ k.legacy = l.legacy
      BY <1>0 DEF Pages
    <2>5. SameChain(l, k)
      BY <1>0 DEF Pages, SameChain
    <2> HIDE DEF k
    <2>6. Shows(k)
      BY <1>0, <1>2, <2>1, <2>4 DEF Shows, found
    <2>7. ChainOK(k)
      BY <1>0, <2>5, ChainCarried
    <2> QED
      BY <2>2, <2>3, <2>4, <2>5, <2>6, <2>7 DEF PageOK, SameChain
  <1> QED
    BY <1>1, <1>2

LEMMA Loaded ==
    ASSUME NEW l, PageOK(l), ~l.blocked, NEW s \in Tracks, NEW k \in Load(l, s)
    PROVE  PageOK(k) /\ k.file = l.file /\ k.legacy = l.legacy /\ (k.hung \/ Free(k))
  <1>1. PICK c \in Cancel(l) :
           IF c.hung THEN k = c
           ELSE k \in IF s \notin Tagged THEN {ClearText(c)}
                      ELSE IF LoadFile(c, s) = NoText
                           THEN StartPluginCycle([ClearText(c) EXCEPT !.song = s])
                           ELSE {LoadFromCache([ClearText(c) EXCEPT !.song = s])}
    BY DEF Load, Then
  <1>2. CASE c.hung
    BY <1>1, <1>2, Cancelled
  <1>3. CASE ~c.hung
    <2> DEFINE empty == ClearText(c)
               new == [empty EXCEPT !.song = s]
    <2>0. /\ PageOK(empty) /\ Calm(empty) /\ empty.song = NoTrack /\ empty.text = NoText
          /\ empty.source = "none" /\ empty.file = l.file /\ empty.legacy = l.legacy
          /\ c.file = l.file /\ c.legacy = l.legacy
      BY <1>1, <1>3, Cancelled
    <2>1. CASE s \notin Tagged
      BY <1>1, <1>3, <2>0, <2>1 DEF Calm
    <2>2. CASE s \in Tagged
      <3>0. k \in IF LoadFile(c, s) = NoText THEN StartPluginCycle(new) ELSE {LoadFromCache(new)}
        BY <1>1, <1>3, <2>2
      <3> HIDE DEF empty
      <3>1. new \in Pages
        BY <2>0, <2>2 DEF PageOK, Pages
      <3>2. /\ new.song = s /\ new.text = NoText /\ new.source = "none"
            /\ new.file = l.file /\ new.legacy = l.legacy
            /\ new.loading = empty.loading /\ new.timer = empty.timer /\ new.fail = empty.fail
            /\ new.blocked = empty.blocked /\ new.hung = empty.hung /\ new.pid = empty.pid
            /\ new.out = empty.out /\ new.err = empty.err /\ new.kid = empty.kid
            /\ new.eintr = empty.eintr
        BY <2>0 DEF PageOK, Pages
      <3> HIDE DEF new
      <3>3. Calm(new)
        BY <2>0, <3>2 DEF Calm, Free, Dead
      <3>4. Shows(new)
        BY <2>0, <3>2 DEF Shows, PageOK
      <3>5. s # NoTrack
        BY LyricsAssumption
      <3>6. PageOK(new)
        BY <3>1, <3>3, <3>4 DEF PageOK, ChainOK
      <3>7. CASE k \in StartPluginCycle(new)
        <4>1. k \in Pages /\ SameShown(new, k) /\ ChainOK(k) /\ Free(k)
          BY <3>1, <3>2, <3>3, <3>5, <3>7, CycleStarted
        <4>2. Shows(k)
          BY <3>4, <4>1, ShowsCarried
        <4> QED
          BY <3>2, <4>1, <4>2 DEF PageOK, SameShown
      <3>8. CASE k = LoadFromCache(new)
        BY <3>2, <3>3, <3>5, <3>6, <3>8, LoadedFromCache DEF Calm, Free
      <3> QED
        BY <3>0, <3>7, <3>8
    <2> QED
      BY <2>1, <2>2
  <1> QED
    BY <1>2, <1>3

LEMMA MaybeLoaded ==
    ASSUME NEW l, PageOK(l), NEW s \in Tracks \cup {NoTrack}, NEW k \in MaybeLoad(l, s),
           Free(l)
    PROVE  PageOK(k) /\ k.file = l.file /\ k.legacy = l.legacy /\ (k.hung \/ Free(k))
  BY Loaded DEF MaybeLoad, Free

LEMMA FileSaved ==
    ASSUME NEW l \in Pages, Shows(l), l.song # NoTrack
    PROVE  LET k == SaveFile(l)
           IN  /\ k \in Pages /\ Shows(k) /\ SameChain(l, k)
               /\ k.text = l.text /\ k.source = l.source /\ k.legacy = l.legacy
               /\ \A s \in Tagged : s # l.song => k.file[s] = l.file[s]
  <1> DEFINE new == IF l.text = NoText THEN EmptyFile ELSE [l.text EXCEPT !.from = "cache"]
             files == [l.file EXCEPT ![l.song] = new]
             k == [l EXCEPT !.file = files]
  <1>1. l.song \in Tagged /\ l.text \in Texts \cup {NoText} /\ l.file \in [Tagged -> Files]
    BY DEF Pages
  <1>2. SaveFile(l) = k
    BY DEF SaveFile, Pages
  <1>3. new \in Files /\ (new # EmptyFile => new.of = l.song)
    <2>1. CASE l.text = NoText
      BY <2>1 DEF Files
    <2>2. CASE l.text # NoText
      <3>1. l.text \in Texts /\ l.text.of = l.song
        BY <1>1, <2>2 DEF Shows
      <3> QED
        BY <2>2, <3>1 DEF Texts, Files
    <2> QED
      BY <2>1, <2>2
  <1> HIDE DEF new
  <1>4. /\ files \in [Tagged -> Files]
        /\ files[l.song] = new /\ \A s \in Tagged : s # l.song => files[s] = l.file[s]
    BY <1>1, <1>3
  <1> HIDE DEF files
  <1>5. k \in Pages
    BY <1>4 DEF Pages
  <1>6. /\ k.file = files /\ k.text = l.text /\ k.source = l.source /\ k.legacy = l.legacy
        /\ k.song = l.song
    BY DEF Pages
  <1>7. SameChain(l, k)
    BY DEF Pages, SameChain
  <1> HIDE DEF k
  <1>8. Shows(k)
    BY <1>3, <1>4, <1>6 DEF Shows
  <1> QED
    BY <1>2, <1>4, <1>5, <1>6, <1>7, <1>8

LEMMA FileDeleted ==
    ASSUME NEW l, PageOK(l), NEW s \in Tagged
    PROVE  PageOK(DeleteFile(l, s))
  <1>0. l \in Pages /\ ChainOK(l) /\ Shows(l)
    BY DEF PageOK
  <1>1. NoText \in Files
    BY DEF Files
  <1>2. ASSUME NEW k, \/ k = [l EXCEPT !.file[s] = NoText] \/ k = [l EXCEPT !.legacy[s] = NoText]
        PROVE  PageOK(k)
    <2>1. k \in Pages
      BY <1>0, <1>1, <1>2 DEF Pages
    <2>2. SameChain(l, k) /\ k.text = l.text /\ k.source = l.source /\ k.song = l.song
      BY <1>0, <1>2 DEF Pages, SameChain
    <2>3. \A x \in Tagged : k.file[x] \in {NoText, l.file[x]} /\ k.legacy[x] \in {NoText, l.legacy[x]}
      BY <1>0, <1>2 DEF Pages
    <2>4. Shows(k)
      BY <1>0, <2>2, <2>3 DEF Shows
    <2> QED
      BY <1>0, <2>1, <2>2, <2>4, ChainCarried DEF PageOK
  <1> QED
    BY <1>2 DEF DeleteFile

\* The chain is done.
LEMMA TextSet ==
    ASSUME NEW l \in Pages, Shows(l), Between(l) \/ Failing(l),
           NEW src \in {"none", "cache"} \cup PluginNames,
           NEW from \in {"cache", "errors"} \cup PluginNames,
           src # "none" => src = from
    PROVE  LET k == SetText([l EXCEPT !.source = src], from)
           IN  /\ k \in Pages /\ Shows(k) /\ SameChain(l, k) /\ k.song = l.song
               /\ k.file = l.file /\ k.legacy = l.legacy
  <1> DEFINE m == [l EXCEPT !.source = src]
             t == Text(l.song, from)
             k == [m EXCEPT !.text = t]
  <1>1. l.song \in Tagged /\ l.song # NoTrack
    BY DEF Between, Failing, Pages
  <1>2. t \in Texts /\ t.of = l.song /\ t.from = from /\ t # NoText
    BY <1>1 DEF Text, Texts, NoText
  <1>3. m \in Pages /\ m.source = src /\ m.song = l.song /\ m.file = l.file /\ m.legacy = l.legacy
    BY DEF Pages
  <1>4. SameChain(l, m)
    BY DEF Pages, SameChain
  <1>5. SetText(m, from) = k
    BY <1>3 DEF SetText
  <1> HIDE DEF m, t
  <1>6. k \in Pages
    BY <1>2, <1>3 DEF Pages
  <1>7. k.text = t /\ k.source = src /\ k.song = l.song /\ k.file = l.file /\ k.legacy = l.legacy
    BY <1>3 DEF Pages
  <1>8. SameChain(m, k)
    BY <1>3 DEF Pages, SameChain
  <1> HIDE DEF k
  <1>9. Shows(k)
    BY <1>2, <1>7 DEF Shows
  <1>10. SameChain(l, k)
    BY <1>4, <1>8 DEF SameChain
  <1> QED
    BY <1>5, <1>6, <1>7, <1>9, <1>10 DEF m

\* The owner of a chain that is done stops the timeout and deletes the chain.
LEMMA ChainDone ==
    ASSUME NEW l \in Pages, Shows(l), Between(l) \/ Failing(l) \/ (ChainOK(l) /\ ~l.blocked),
           NEW k \in Finished(l)
    PROVE  PageOK(k) /\ k.file = l.file /\ k.legacy = l.legacy
  <1> DEFINE m == [l EXCEPT !.timer = FALSE]
  <1>1. m \in Pages /\ m.timer = FALSE /\ k \in StopPluginCycle(m)
    BY DEF Pages, Finished
  <1>2. /\ m.loading = l.loading /\ m.fail = l.fail /\ m.blocked = l.blocked /\ m.song = l.song
        /\ m.pid = l.pid /\ m.next = l.next /\ m.out = l.out /\ m.err = l.err /\ m.kid = l.kid
        /\ m.hung = l.hung /\ m.eintr = l.eintr
    BY DEF Pages
  <1>3. SameShown(l, m)
    BY DEF Pages, SameShown
  <1> HIDE DEF m
  <1>4. Between(m) \/ (ChainOK(m) /\ ~m.blocked)
    <2>1. Between(l) => Between(m)
      BY <1>2 DEF Between, Free, Dead
    <2>2. Failing(l) => Failing(m)
      BY <1>2 DEF Failing, Free, Dead
    <2>3. Calm(l) => Calm(m)
      BY <1>1, <1>2 DEF Calm, Free, Dead
    <2>4. Working(l) /\ Waiting(l) => Working(m) /\ Waiting(m)
      BY <1>2 DEF Working, Waiting, Closed
    <2>5. Failing(m) => ~m.blocked
      BY DEF Failing, Free
    <2> QED
      BY <1>2, <2>1, <2>2, <2>3, <2>4, <2>5 DEF ChainOK
  <1>5. /\ k \in Pages /\ SameShown(m, k) /\ k.timer = m.timer
        /\ \/ ~k.loading /\ ~k.fail /\ Free(k) /\ Dead(k)
           \/ k.hung /\ ChainOK(k)
    BY <1>1, <1>4, CycleStopped
  <1>6. ChainOK(k)
    BY <1>1, <1>5 DEF Calm, ChainOK
  <1>7. SameShown(l, k)
    BY <1>3, <1>5 DEF SameShown
  <1>8. Shows(k)
    BY <1>7, ShowsCarried
  <1> QED
    BY <1>5, <1>6, <1>7, <1>8 DEF PageOK, SameShown

\* Files that exist are what they were.
FilesKept(l, k) == \A s \in Tagged : k.file[s] # l.file[s] => ~Exists(l, s)

LEMMA PluginSucceeded ==
    ASSUME NEW l \in Pages, Shows(l), Between(l), l.next \in Plugin, NEW k \in OnPluginSuccess(l)
    PROVE  PageOK(k) /\ FilesKept(l, k)
  <1> DEFINE name == PluginList[l.next]
             shown == SetText([l EXCEPT !.source = name], name)
             saved == SaveFile(shown)
  <1>1. name \in PluginNames
    BY DEF PluginNames
  <1>2. \/ k \in Finished(shown)
        \/ ~Exists(shown, shown.song) /\ k \in Finished(saved)
    BY DEF OnPluginSuccess
  <1> HIDE DEF name
  <1>3. /\ shown \in Pages /\ Shows(shown) /\ SameChain(l, shown) /\ shown.song = l.song
        /\ shown.file = l.file /\ shown.legacy = l.legacy
    BY <1>1, TextSet
  <1> HIDE DEF shown
  <1>4. Between(shown) /\ shown.song # NoTrack
    BY <1>3, ChainCarried DEF Between
  <1>5. /\ saved \in Pages /\ Shows(saved) /\ SameChain(shown, saved)
        /\ \A s \in Tagged : s # l.song => saved.file[s] = l.file[s]
    BY <1>3, <1>4, FileSaved
  <1> HIDE DEF saved
  <1>6. Between(saved)
    BY <1>4, <1>5, ChainCarried
  <1>7. CASE k \in Finished(shown)
    BY <1>3, <1>4, <1>7, ChainDone DEF FilesKept
  <1>8. CASE ~Exists(shown, shown.song) /\ k \in Finished(saved)
    <2>1. PageOK(k) /\ k.file = saved.file
      BY <1>5, <1>6, <1>8, ChainDone
    <2>2. ~Exists(l, l.song)
      BY <1>3, <1>8 DEF Exists
    <2> QED
      BY <1>5, <2>1, <2>2 DEF FilesKept
  <1> QED
    BY <1>2, <1>7, <1>8

LEMMA PluginsFailed ==
    ASSUME NEW l, PageOK(l), l.fail, NEW k \in OnPluginError(l)
    PROVE  PageOK(k) /\ k.file = l.file
  <1>1. l \in Pages /\ Shows(l) /\ Failing(l)
    BY DEF PageOK, ChainOK, Calm, Working
  <1> DEFINE shown == SetText([l EXCEPT !.source = "none"], "errors")
  <1>2. shown \in Pages /\ Shows(shown) /\ SameChain(l, shown) /\ shown.file = l.file
    BY <1>1, TextSet
  <1>3. k \in Finished(shown)
    BY DEF OnPluginError
  <1> HIDE DEF shown
  <1>4. Failing(shown)
    BY <1>1, <1>2 DEF SameChain, Failing, Free, Dead
  <1> QED
    BY <1>2, <1>3, <1>4, ChainDone

\* The process is reaped: its lyrics are shown, or the next plugin is started.
LEMMA Reaped ==
    ASSUME NEW l \in Pages, Shows(l), Working(l), Closed(l), ~l.hung, NEW k \in Reap(l)
    PROVE  PageOK(k) /\ FilesKept(l, k)
  <1> DEFINE kids == [l.kid EXCEPT ![l.pid] = "none"]
             r == [l EXCEPT !.pid = 0, !.kid = kids, !.blocked = FALSE]
  <1>1. k \in IF l.kid[l.pid] = "ok" THEN OnPluginSuccess(r) ELSE TryNextPlugin(r)
    BY DEF Reap, Pages
  <1>2. kids \in [Plugin -> {"none", "running", "ok", "unavailable", "failed"}]
    BY DEF Pages, Working
  <1>3. ~l.eintr => \A p \in Plugin : kids[p] = "none"
    BY DEF Pages, Working
  <1> HIDE DEF kids
  <1>4. 0 \in 0..Len(PluginList)
    BY PluginIs
  <1>5. r \in Pages
    BY <1>2, <1>4 DEF Pages
  <1>6. /\ r.pid = 0 /\ r.kid = kids /\ r.blocked = FALSE /\ r.loading = l.loading
        /\ r.fail = l.fail /\ r.song = l.song /\ r.out = l.out /\ r.err = l.err
        /\ r.next = l.next /\ r.hung = l.hung /\ r.eintr = l.eintr
    BY DEF Pages
  <1>7. SameShown(l, r)
    BY DEF Pages, SameShown
  <1> HIDE DEF r
  <1>8. Between(r) /\ r.next \in Plugin
    BY <1>3, <1>6 DEF Working, Closed, Between, Free, Dead
  <1>9. Shows(r)
    BY <1>7, ShowsCarried
  <1>10. CASE k \in OnPluginSuccess(r)
    <2>1. PageOK(k) /\ FilesKept(r, k)
      BY <1>5, <1>8, <1>9, <1>10, PluginSucceeded
    <2> QED
      BY <1>7, <2>1 DEF FilesKept, SameShown, Exists
  <1>11. CASE k \in TryNextPlugin(r)
    <2>1. k \in Pages /\ SameShown(r, k) /\ ChainOK(k)
      BY <1>5, <1>8, <1>11, NextPlugin
    <2>2. Shows(k)
      BY <1>9, <2>1, ShowsCarried
    <2> QED
      BY <1>7, <2>1, <2>2 DEF PageOK, FilesKept, SameShown
  <1> QED
    BY <1>1, <1>10, <1>11

-----------------------------------------------------------------------------
(* Steps of the lyrics page.                                               *)

LyricsInv == PageOK(lyrics) /\ playingSong \in Tracks \cup {NoTrack}

\* Only what the user asks for changes a file that is there.
FilesKeptUnlessAsked ==
    \A s \in Tagged : lyrics'.file[s] # lyrics.file[s] /\ Exists(lyrics, s)
        => SaveLyrics \/ DeleteLyrics \/ Edit

LyricsStep == PageOK(lyrics') /\ FilesKeptUnlessAsked

LEMMA LyricsInvInit == LyricsInit => LyricsInv
  <1> SUFFICES ASSUME LyricsInit PROVE LyricsInv
    OBVIOUS
  <1> DEFINE none == [s \in Tagged |-> NoText]
             old == [s \in Tagged |-> IF s \in Legacy THEN Text(s, "cache") ELSE NoText]
  <1>0. 0 \in 0..Len(PluginList)
    BY PluginIs
  <1>1. none \in [Tagged -> Files] /\ \A s \in Tagged : none[s] = NoText
    BY DEF Files
  <1>2. /\ old \in [Tagged -> Files]
        /\ \A s \in Tagged : old[s] # NoText => old[s].of = s
    BY DEF Files, Text, NoText
  <1>3. NoKid \in [Plugin -> {"none", "running", "ok", "unavailable", "failed"}]
        /\ \A p \in Plugin : NoKid[p] = "none"
    BY DEF NoKid
  <1>4. PICK limit, eintr \in BOOLEAN :
        lyrics = [song |-> NoTrack, text |-> NoText, source |-> "none", open |-> FALSE,
                  follow |-> FALSE, timer |-> FALSE, loading |-> FALSE,
                  next |-> 0, pid |-> 0, out |-> "closed", err |-> "closed", fail |-> FALSE,
                  blocked |-> FALSE, hung |-> FALSE, kid |-> NoKid,
                  limit |-> limit, eintr |-> eintr, file |-> none, legacy |-> old]
    BY DEF LyricsInit
  <1> HIDE DEF none, old
  <1>5. lyrics \in Pages
    BY <1>0, <1>1, <1>2, <1>3, <1>4 DEF Pages
  <1>6. Shows(lyrics)
    BY <1>1, <1>2, <1>4 DEF Shows
  <1>7. Calm(lyrics)
    BY <1>3, <1>4 DEF Calm, Free, Dead
  <1> QED
    BY <1>5, <1>6, <1>7 DEF LyricsInv, LyricsInit, PageOK, ChainOK

LEMMA StepKeepsFiles ==
    ASSUME PageOK(lyrics'), FilesKept(lyrics, lyrics') \/ lyrics'.file = lyrics.file
    PROVE  LyricsStep
  BY DEF LyricsStep, FilesKept, FilesKeptUnlessAsked

LEMMA OnReadStep ==
    ASSUME LyricsInv, NEW pipe \in {"out", "err"}, OnRead(pipe)
    PROVE  LyricsStep
  <1>1. /\ lyrics \in Pages /\ Shows(lyrics) /\ ~lyrics.blocked /\ lyrics[pipe] = "eof"
        /\ ChainOK(lyrics)
    BY DEF LyricsInv, PageOK, OnRead, Awake
  <1>2. Working(lyrics) /\ ~Closed(lyrics) /\ ~lyrics.hung
    BY <1>1 DEF ChainOK, Calm, Failing, Waiting, Dead, Closed
  <1> DEFINE l == [lyrics EXCEPT ![pipe] = "closed"]
  <1>3. lyrics' \in IF l.out # "closed" \/ l.err # "closed" THEN {l}
                    ELSE IF l.kid[l.pid] = "running" THEN {[l EXCEPT !.blocked = TRUE]}
                    ELSE Reap(l)
    BY DEF OnRead
  <1>4. /\ l \in Pages /\ SameShown(lyrics, l)
        /\ l.pid = lyrics.pid /\ l.next = lyrics.next /\ l.loading = lyrics.loading
        /\ l.fail = lyrics.fail /\ l.song = lyrics.song /\ l.kid = lyrics.kid
        /\ l.blocked = lyrics.blocked /\ l.hung = lyrics.hung
    <2>1. CASE pipe = "out"
      BY <1>1, <2>1 DEF Pages, SameShown
    <2>2. CASE pipe = "err"
      BY <1>1, <2>2 DEF Pages, SameShown
    <2> QED
      BY <2>1, <2>2
  <1> HIDE DEF l
  <1>5. Working(l) /\ Shows(l)
    BY <1>1, <1>2, <1>4, ShowsCarried DEF Working, SameShown
  <1>6. CASE ~Closed(l) /\ lyrics' = l
    BY <1>1, <1>2, <1>4, <1>5, <1>6, StepKeepsFiles DEF PageOK, ChainOK, Waiting, SameShown
  <1>7. CASE Closed(l) /\ lyrics' = [l EXCEPT !.blocked = TRUE]
    <2> DEFINE k == [l EXCEPT !.blocked = TRUE]
    <2>1. k \in Pages
      BY <1>4 DEF Pages
    <2>2. SameShown(l, k)
      BY <1>4 DEF Pages, SameShown
    <2>3. /\ k.blocked /\ k.pid = l.pid /\ k.next = l.next /\ k.loading = l.loading /\ k.fail = l.fail
          /\ k.song = l.song /\ k.kid = l.kid /\ k.out = l.out /\ k.err = l.err
      BY <1>4 DEF Pages
    <2> HIDE DEF k
    <2>4. Working(k) /\ Waiting(k)
      BY <1>5, <1>7, <2>2, <2>3 DEF Working, Waiting, Closed, SameShown
    <2>5. PageOK(k)
      BY <1>5, <2>1, <2>2, <2>4, ShowsCarried DEF PageOK, ChainOK
    <2> QED
      BY <1>4, <1>7, <2>2, <2>5, StepKeepsFiles DEF SameShown, k
  <1>8. CASE Closed(l) /\ lyrics' \in Reap(l)
    <2>1. PageOK(lyrics') /\ FilesKept(l, lyrics')
      BY <1>2, <1>4, <1>5, <1>8, Reaped
    <2> QED
      BY <1>4, <2>1, StepKeepsFiles DEF FilesKept, SameShown, Exists
  <1> QED
    BY <1>3, <1>6, <1>7, <1>8 DEF Closed

LEMMA WaitReturnsStep ==
    ASSUME LyricsInv, WaitReturns \/ WaitInterrupted
    PROVE  LyricsStep
  <1>1. /\ lyrics \in Pages /\ Shows(lyrics) /\ Working(lyrics) /\ Closed(lyrics)
        /\ lyrics.blocked /\ ~lyrics.hung
    BY DEF LyricsInv, PageOK, WaitReturns, WaitInterrupted, ChainOK, Calm, Failing, Waiting, Free
  <1>2. CASE WaitReturns
    BY <1>1, <1>2, Reaped, StepKeepsFiles DEF WaitReturns
  <1>3. CASE WaitInterrupted
    <2> DEFINE m == [lyrics EXCEPT !.pid = 0, !.blocked = FALSE]
    <2>0. 0 \in 0..Len(PluginList)
      BY PluginIs
    <2>1. m \in Pages /\ lyrics' \in TryNextPlugin(m) /\ lyrics.eintr
      <3>1. m \in Pages
        BY <1>1, <2>0 DEF Pages
      <3>2. lyrics' \in TryNextPlugin(m) /\ lyrics.eintr
        BY <1>3 DEF WaitInterrupted
      <3> QED
        BY <3>1, <3>2
    <2>2. /\ m.pid = 0 /\ m.blocked = FALSE /\ m.hung = lyrics.hung /\ m.loading = lyrics.loading
          /\ m.fail = lyrics.fail /\ m.song = lyrics.song /\ m.out = lyrics.out /\ m.err = lyrics.err
          /\ SameShown(lyrics, m)
      BY <1>1 DEF Pages, SameShown
    <2> HIDE DEF m
    <2>3. Between(m)
      BY <1>1, <2>1, <2>2 DEF Working, Closed, Between, Free, Dead, SameShown
    <2>4. lyrics' \in Pages /\ SameShown(m, lyrics') /\ ChainOK(lyrics')
      BY <2>1, <2>3, NextPlugin
    <2>5. SameShown(lyrics, lyrics')
      BY <2>2, <2>4 DEF SameShown
    <2>6. Shows(lyrics')
      BY <1>1, <2>5, ShowsCarried
    <2> QED
      BY <2>4, <2>5, <2>6, StepKeepsFiles DEF PageOK, SameShown
  <1> QED
    BY <1>2, <1>3

LEMMA TimersStep ==
    ASSUME LyricsInv, OnDelayedFail \/ OnTimeout
    PROVE  LyricsStep
  <1>1. PageOK(lyrics) /\ lyrics \in Pages /\ Shows(lyrics) /\ ChainOK(lyrics) /\ ~lyrics.blocked
    BY DEF LyricsInv, PageOK, OnDelayedFail, OnTimeout, Awake
  <1>2. CASE OnDelayedFail
    BY <1>1, <1>2, PluginsFailed, StepKeepsFiles DEF OnDelayedFail
  <1>3. CASE OnTimeout
    BY <1>1, <1>3, ChainDone, StepKeepsFiles DEF OnTimeout
  <1> QED
    BY <1>2, <1>3

\* The flags of the page are nobody else's business.
LEMMA FlagsSet ==
    ASSUME NEW l, PageOK(l), NEW o \in BOOLEAN, NEW f \in BOOLEAN
    PROVE  LET k == [l EXCEPT !.open = o, !.follow = f]
           IN  PageOK(k) /\ k.file = l.file /\ k.blocked = l.blocked /\ k.hung = l.hung
  <1> DEFINE k == [l EXCEPT !.open = o, !.follow = f]
  <1>1. l \in Pages
    BY DEF PageOK
  <1>2. k \in Pages
    BY <1>1 DEF Pages
  <1>3. SameShown(l, k) /\ SameChain(l, k)
    BY <1>1 DEF Pages, SameShown, SameChain
  <1> HIDE DEF k
  <1> QED
    BY <1>2, <1>3, ShowsCarried, ChainCarried DEF PageOK, SameShown, SameChain, k

\* The event loop runs only while the page does not wait in waitpid().
LEMMA AwakeIsFree == ASSUME NEW l, PageOK(l), ~l.blocked PROVE Free(l)
  BY DEF PageOK, ChainOK, Calm, Failing, Waiting, Free

LEMMA PageStep ==
    ASSUME LyricsInv, OnOpen \/ OnClose \/ UpdateLyrics
    PROVE  LyricsStep
  <1>1. /\ PageOK(lyrics) /\ lyrics \in Pages /\ ~lyrics.blocked /\ Free(lyrics)
        /\ playingSong \in Tracks \cup {NoTrack}
    BY AwakeIsFree DEF LyricsInv, PageOK, OnOpen, OnClose, UpdateLyrics, Awake
  <1>2. CASE OnOpen
    <2>1. PICK s \in Tracks \cup {NoTrack}, f \in BOOLEAN :
             \E l \in MaybeLoad([lyrics EXCEPT !.open = TRUE, !.follow = f],
                                IF s # NoTrack THEN s ELSE playingSong) :
                lyrics' \in IF l.hung THEN {l}
                           ELSE IF f THEN MaybeLoad(l, playingSong) ELSE {l}
      BY <1>2 DEF OnOpen, Then
    <2> DEFINE m == [lyrics EXCEPT !.open = TRUE, !.follow = f]
               x == IF s # NoTrack THEN s ELSE playingSong
    <2>2. PageOK(m) /\ m.file = lyrics.file /\ Free(m)
      BY <1>1, FlagsSet DEF Free
    <2> HIDE DEF m
    <2>3. x \in Tracks \cup {NoTrack}
      BY <1>1
    <2> HIDE DEF x
    <2>4. PICK l \in MaybeLoad(m, x) : lyrics' \in IF l.hung THEN {l}
                                                  ELSE IF f THEN MaybeLoad(l, playingSong) ELSE {l}
      BY <2>1 DEF m, x
    <2>5. PageOK(l) /\ l.file = m.file /\ (l.hung \/ Free(l))
      BY <2>2, <2>3, MaybeLoaded
    <2>6. PageOK(lyrics') /\ lyrics'.file = l.file
      BY <1>1, <2>4, <2>5, MaybeLoaded
    <2> QED
      BY <2>2, <2>5, <2>6, StepKeepsFiles
  <1>3. CASE OnClose
    <2>1. lyrics' = [lyrics EXCEPT !.open = FALSE, !.follow = lyrics.follow]
      BY <1>1, <1>3 DEF OnClose, Pages
    <2>2. lyrics.follow \in BOOLEAN
      BY <1>1 DEF Pages
    <2> QED
      BY <1>1, <2>1, <2>2, FlagsSet, StepKeepsFiles
  <1>4. CASE UpdateLyrics
    BY <1>1, <1>4, MaybeLoaded, StepKeepsFiles DEF UpdateLyrics
  <1> QED
    BY <1>2, <1>3, <1>4

LEMMA CommandStep ==
    ASSUME LyricsInv, LyricsCommand
    PROVE  LyricsStep
  <1>1. /\ PageOK(lyrics) /\ lyrics \in Pages /\ Shows(lyrics) /\ ChainOK(lyrics) /\ ~lyrics.blocked
        /\ playingSong \in Tracks \cup {NoTrack}
    BY DEF LyricsInv, PageOK, LyricsCommand, Interrupt, SaveLyrics, DeleteLyrics, LyricsUpdate,
           Reload, Edit, UserCommand, Awake
  <1>2. CASE Interrupt
    <2>1. PICK c \in Cancel(lyrics) : lyrics' = IF c.hung THEN c ELSE ClearText(c)
      BY <1>2 DEF Interrupt, Then
    <2> QED
      BY <1>1, <2>1, Cancelled, StepKeepsFiles
  <1>3. CASE SaveLyrics
    <2>1. PageOK(SaveFile(lyrics))
      BY <1>1, <1>3, FileSaved, ChainCarried DEF SaveLyrics, Settled, PageOK
    <2> QED
      BY <1>3, <2>1 DEF SaveLyrics, LyricsStep, FilesKeptUnlessAsked
  <1>4. CASE DeleteLyrics
    <2>1. lyrics.song \in Tagged
      BY <1>1, <1>4 DEF DeleteLyrics, Settled, Pages
    <2>2. PageOK(lyrics')
      BY <1>1, <1>4, <2>1, FileDeleted DEF DeleteLyrics
    <2> QED
      BY <1>4, <2>2 DEF LyricsStep, FilesKeptUnlessAsked
  <1>5. CASE LyricsUpdate
    BY <1>1, <1>5, Loaded, StepKeepsFiles DEF LyricsUpdate
  <1>6. CASE Reload
    <2>1. Calm(lyrics) /\ lyrics.song # NoTrack
      BY <1>1, <1>6 DEF Reload, Settled, ChainOK, Failing, Working
    <2>2. lyrics' \in Pages /\ SameShown(lyrics, lyrics') /\ ChainOK(lyrics')
      BY <1>1, <1>6, <2>1, CycleStarted DEF Reload
    <2>3. Shows(lyrics')
      BY <1>1, <2>2, ShowsCarried
    <2> QED
      BY <2>2, <2>3, StepKeepsFiles DEF PageOK, SameShown
  <1>7. CASE Edit
    <2> DEFINE saved == SaveFile(lyrics)
               own == Text(lyrics.song, "cache")
    <2>1. lyrics.song # NoTrack /\ lyrics.song \in Tagged
      BY <1>1, <1>7 DEF Edit, Pages
    <2>2. PICK f \in {own, EmptyFile, saved.file[lyrics.song]} :
             \/ lyrics' = [saved EXCEPT !.file[lyrics.song] = f]
             \/ lyrics' = LoadFromCache([saved EXCEPT !.file[lyrics.song] = f])
      BY <1>7 DEF Edit
    <2> DEFINE l == [saved EXCEPT !.file[lyrics.song] = f]
    <2>3. saved \in Pages /\ Shows(saved) /\ SameChain(lyrics, saved)
      BY <1>1, <2>1, FileSaved
    <2> HIDE DEF saved
    <2>4. f \in Files /\ (f \notin {NoText, EmptyFile} => f.of = lyrics.song)
      <3>1. own \in Files /\ own.of = lyrics.song
        BY <2>1 DEF Text, Files
      <3>2. saved.file[lyrics.song] \in Files
        BY <2>1, <2>3 DEF Pages
      <3> QED
        BY <2>1, <2>3, <3>1, <3>2 DEF Shows, Files
    <2>5. l \in Pages
      BY <2>1, <2>2, <2>3, <2>4 DEF Pages
    <2>6. /\ l.text = saved.text /\ l.source = saved.source /\ l.song = saved.song
          /\ l.legacy = saved.legacy
          /\ \A s \in Tagged : l.file[s] = IF s = lyrics.song THEN f ELSE saved.file[s]
      BY <2>2, <2>3 DEF Pages
    <2>7. SameChain(saved, l)
      BY <2>2, <2>3 DEF Pages, SameChain
    <2> HIDE DEF l
    <2>8. Shows(l)
      BY <2>3, <2>4, <2>6 DEF Shows
    <2>9. PageOK(l) /\ l.song # NoTrack
      BY <1>1, <2>1, <2>3, <2>5, <2>7, <2>8, ChainCarried DEF PageOK, SameChain
    <2>10. PageOK(lyrics')
      BY <2>2, <2>9, LoadedFromCache DEF l
    <2> QED
      BY <1>7, <2>10 DEF LyricsStep, FilesKeptUnlessAsked
  <1> QED
    BY <1>2, <1>3, <1>4, <1>5, <1>6, <1>7 DEF LyricsCommand

LEMMA KidStep ==
    ASSUME LyricsInv, KidExits \/ \E pipe \in {"out", "err"} : KidCloses(pipe)
    PROVE  LyricsStep
  <1>1. lyrics \in Pages /\ Shows(lyrics) /\ ChainOK(lyrics) /\ KidRuns
    BY DEF LyricsInv, PageOK, KidExits, KidCloses
  <1>2. /\ Working(lyrics) /\ Waiting(lyrics) /\ lyrics.pid \in Plugin
        /\ lyrics.kid[lyrics.pid] = "running"
    BY <1>1, PluginIs DEF KidRuns, KidRunsOf, ChainOK, Calm, Failing, Dead, Working
  <1>3. ASSUME NEW k \in Pages, SameShown(lyrics, k),
               k.loading = lyrics.loading, k.fail = lyrics.fail, k.pid = lyrics.pid,
               k.next = lyrics.next, k.blocked = lyrics.blocked, k.hung = lyrics.hung,
               Closed(k) <=> Closed(lyrics),
               \A p \in Plugin : k.kid[p] = "none" <=> lyrics.kid[p] = "none",
               lyrics' = k
        PROVE  LyricsStep
    <2>1. Working(k) /\ Waiting(k)
      BY <1>2, <1>3 DEF Working, Waiting, SameShown
    <2>2. Shows(k)
      BY <1>1, <1>3, ShowsCarried
    <2>3. PageOK(k) /\ k.file = lyrics.file
      BY <1>3, <2>1, <2>2 DEF PageOK, ChainOK, SameShown
    <2> QED
      BY <1>3, <2>3, StepKeepsFiles
  <1>4. ASSUME NEW pipe \in {"out", "err"}, KidCloses(pipe) PROVE LyricsStep
    <2> DEFINE k == [lyrics EXCEPT ![pipe] = "eof"]
    <2>1. lyrics' = k /\ lyrics[pipe] = "open"
      BY <1>4 DEF KidCloses
    <2>2. /\ k \in Pages /\ k.loading = lyrics.loading /\ k.fail = lyrics.fail /\ k.pid = lyrics.pid
          /\ k.next = lyrics.next /\ k.blocked = lyrics.blocked /\ k.kid = lyrics.kid
          /\ k.hung = lyrics.hung
          /\ Closed(k) <=> Closed(lyrics)
      <3>1. CASE pipe = "out"
        BY <1>1, <2>1, <3>1 DEF Pages, Closed
      <3>2. CASE pipe = "err"
        BY <1>1, <2>1, <3>2 DEF Pages, Closed
      <3> QED
        BY <3>1, <3>2
    <2>3. SameShown(lyrics, k)
      BY <1>1 DEF Pages, SameShown
    <2> HIDE DEF k
    <2> QED
      BY <1>3, <2>1, <2>2, <2>3
  <1>5. CASE KidExits
    <2>1. PICK status \in {"ok", "unavailable", "failed"} :
             lyrics' = [lyrics EXCEPT !.kid[lyrics.pid] = status,
                                      !.out = IF @ = "open" THEN "eof" ELSE @,
                                      !.err = IF @ = "open" THEN "eof" ELSE @]
      BY <1>5 DEF KidExits
    <2> DEFINE kids == [lyrics.kid EXCEPT ![lyrics.pid] = status]
               o == IF lyrics.out = "open" THEN "eof" ELSE lyrics.out
               e == IF lyrics.err = "open" THEN "eof" ELSE lyrics.err
               k == [lyrics EXCEPT !.kid = kids, !.out = o, !.err = e]
    <2>2. lyrics' = k
      BY <1>1, <2>1 DEF Pages
    <2>3. kids \in [Plugin -> {"none", "running", "ok", "unavailable", "failed"}]
      BY <1>1 DEF Pages
    <2>4. \A p \in Plugin : kids[p] = "none" <=> lyrics.kid[p] = "none"
      BY <1>1, <1>2 DEF Pages
    <2>5. /\ o \in {"closed", "open", "eof"} /\ (o = "closed" <=> lyrics.out = "closed")
          /\ e \in {"closed", "open", "eof"} /\ (e = "closed" <=> lyrics.err = "closed")
      BY <1>1 DEF Pages
    <2> HIDE DEF kids, o, e
    <2>6. k \in Pages
      BY <1>1, <2>3, <2>5 DEF Pages
    <2>7. /\ k.loading = lyrics.loading /\ k.fail = lyrics.fail /\ k.pid = lyrics.pid
          /\ k.next = lyrics.next /\ k.blocked = lyrics.blocked /\ k.kid = kids
          /\ k.hung = lyrics.hung
          /\ k.out = o /\ k.err = e
      BY <1>1 DEF Pages
    <2>8. SameShown(lyrics, k)
      BY <1>1 DEF Pages, SameShown
    <2> HIDE DEF k
    <2>9. Closed(k) <=> Closed(lyrics)
      BY <2>5, <2>7 DEF Closed
    <2> QED
      BY <1>3, <2>2, <2>4, <2>6, <2>7, <2>8, <2>9
  <1> QED
    BY <1>4, <1>5

LEMMA LyricsSteps ==
    ASSUME LyricsInv, [LyricsNext]_lyricsVars
    PROVE  LyricsInv' /\ [FilesKeptUnlessAsked]_lyricsVars
  <1>1. playingSong' \in Tracks \cup {NoTrack}
    BY DEF LyricsInv, LyricsNext, lyricsVars, OnRead, KidCloses, WaitReturns, WaitInterrupted, OnDelayedFail,
           OnTimeout, OnOpen, OnClose, UpdateLyrics, LyricsCommand, Interrupt, SaveLyrics,
           DeleteLyrics, LyricsUpdate, Reload, Edit, UserCommand, KidExits, SongChanges
  <1>2. CASE lyrics' = lyrics
    <2>1. FilesKeptUnlessAsked
      BY <1>2 DEF FilesKeptUnlessAsked
    <2> QED
      BY <1>1, <1>2, <2>1 DEF LyricsInv, PageOK
  <1>3. CASE LyricsNext /\ ~SongChanges
    <2>1. LyricsStep
      BY <1>3, OnReadStep, WaitReturnsStep, TimersStep, PageStep, CommandStep, KidStep
         DEF LyricsNext
    <2> QED
      BY <1>1, <2>1 DEF LyricsStep, LyricsInv
  <1> QED
    BY <1>2, <1>3 DEF LyricsNext, lyricsVars, SongChanges

LEMMA LyricsInvIsSound == LyricsInv => LyricsSound
  <1> SUFFICES ASSUME LyricsInv PROVE LyricsSound
    OBVIOUS
  <1>1. LyricsTypeOK /\ TextIsOfSong /\ TitleNamesSource /\ FilesAreOwn
    BY DEF LyricsInv, PageOK, Shows, LyricsTypeOK, TextIsOfSong, TitleNamesSource, FilesAreOwn
  <1>2. ChainHasSong
    BY DEF LyricsInv, PageOK, ChainOK, Calm, Failing, Working, ChainHasSong
  <1>3. ChainWaits
    BY PluginIs DEF LyricsInv, PageOK, ChainOK, Calm, Failing, Working, Waiting, Dead, Closed, ChainWaits
  <1>4. NoStrayProcess
    BY DEF LyricsInv, PageOK, ChainOK, Calm, Failing, Working, Dead, NoStrayProcess
  <1> QED
    BY <1>1, <1>2, <1>3, <1>4 DEF LyricsSound

\* Whatever the plugins, the timeout, the user and MPD do, and however many plugins there are,
\* the page shows lyrics of its song, its chain waits for something, and only the user changes a
\* file that exists (LyricsPage, PluginCycle, LyricsCache).  Where no signal interrupts waitpid(),
\* it has at most one process, for the chain it waits for; where one does, it may lose some.
THEOREM LyricsAreOfTheSong == LyricsSpec => LyricsOfTheSong
  <1>1. LyricsInit => LyricsInv
    BY LyricsInvInit
  <1>2. LyricsInv /\ [LyricsNext]_lyricsVars => LyricsInv'
    BY LyricsSteps
  <1>3. LyricsInv => LyricsSound
    BY LyricsInvIsSound
  <1>4. LyricsInv /\ [LyricsNext]_lyricsVars =>
           [\A s \in Tagged : lyrics'.file[s] # lyrics.file[s] /\ Exists(lyrics, s)
                => SaveLyrics \/ DeleteLyrics \/ Edit]_lyricsVars
    BY LyricsSteps DEF FilesKeptUnlessAsked
  <1> QED
    BY <1>1, <1>2, <1>3, <1>4, PTL DEF LyricsSpec, LyricsOfTheSong, KeepsFiles

-----------------------------------------------------------------------------
(* Lists that are edited *)

\* A piece of a list
LEMMA PieceFacts ==
    ASSUME NEW S, NEW l \in Seq(S), NEW a \in Int, NEW b \in Int, a >= 1, b <= Len(l)
    PROVE  /\ SubSeq(l, a, b) \in Seq(S)
           /\ Len(SubSeq(l, a, b)) = IF a <= b THEN b - a + 1 ELSE 0
           /\ \A i \in 1..(b - a + 1) : SubSeq(l, a, b)[i] = l[a + i - 1]
<1>1. \A i \in a..b : l[i] \in S
  BY LenProperties
<1> QED
  BY <1>1, SubSeqProperties

LEMMA JoinFacts ==
    ASSUME NEW S, NEW p \in Seq(S), NEW q \in Seq(S)
    PROVE  /\ p \o q \in Seq(S) /\ Len(p \o q) = Len(p) + Len(q)
           /\ \A i \in 1..Len(p \o q) : (p \o q)[i] = IF i <= Len(p) THEN p[i] ELSE q[i - Len(p)]
BY ConcatProperties

\* A range is taken out.
LEMMA RangeRemoved ==
    ASSUME NEW S, NEW l \in Seq(S), NEW a \in Int, NEW b \in Int, 1 <= a, a <= b, b <= Len(l)
    PROVE  LET r == RemoveRange(l, a, b)
           IN  /\ r \in Seq(S) /\ Len(r) = Len(l) - (b - a + 1)
               /\ SubSeq(r, 1, a - 1) = SubSeq(l, 1, a - 1)
               /\ SubSeq(r, a, Len(r)) = SubSeq(l, b + 1, Len(l))
<1> DEFINE n == Len(l)
           p == SubSeq(l, 1, a - 1)
           q == SubSeq(l, b + 1, n)
           r == RemoveRange(l, a, b)
<1>1. n \in Nat /\ b <= n
  BY LenProperties
<1>2. p \in Seq(S) /\ Len(p) = a - 1 /\ \A i \in 1..(a - 1) : p[i] = l[i]
  BY <1>1, PieceFacts, 1 <= a
<1>3. q \in Seq(S) /\ Len(q) = n - b /\ \A i \in 1..(n - b) : q[i] = l[b + i]
  BY <1>1, PieceFacts
<1>4. r = p \o q
  BY DEF RemoveRange
<1> HIDE DEF n, p, q, r
<1>5. /\ r \in Seq(S) /\ Len(r) = n - b + a - 1
      /\ \A i \in 1..(n - b + a - 1) : r[i] = IF i <= a - 1 THEN p[i] ELSE q[i - (a - 1)]
  <2>1. r \in Seq(S) /\ Len(r) = a - 1 + (n - b)
        /\ \A i \in 1..Len(r) : r[i] = IF i <= a - 1 THEN p[i] ELSE q[i - (a - 1)]
    <3>1. r \in Seq(S) /\ Len(r) = Len(p) + Len(q)
          /\ \A i \in 1..Len(r) : r[i] = IF i <= Len(p) THEN p[i] ELSE q[i - Len(p)]
      BY <1>2, <1>3, <1>4, JoinFacts
    <3> QED
      BY <1>2, <1>3, <3>1
  <2>2. a - 1 + (n - b) = n - b + a - 1
    BY <1>1
  <2> QED
    BY <2>1, <2>2
<1>6. SubSeq(r, 1, a - 1) = p
  <2>1. /\ SubSeq(r, 1, a - 1) \in Seq(S) /\ Len(SubSeq(r, 1, a - 1)) = a - 1
        /\ \A i \in 1..(a - 1) : SubSeq(r, 1, a - 1)[i] = r[i]
    BY <1>1, <1>5, PieceFacts
  <2>2. \A i \in 1..(a - 1) : SubSeq(r, 1, a - 1)[i] = p[i]
    BY <1>1, <1>5, <2>1
  <2> QED
    BY <1>2, <2>1, <2>2, SeqEqual
<1>7. SubSeq(r, a, n - b + a - 1) = q
  <2>1. /\ SubSeq(r, a, n - b + a - 1) \in Seq(S) /\ Len(SubSeq(r, a, n - b + a - 1)) = n - b
        /\ \A i \in 1..(n - b) : SubSeq(r, a, n - b + a - 1)[i] = r[a + i - 1]
    BY <1>1, <1>5, PieceFacts
  <2>2. \A i \in 1..(n - b) : SubSeq(r, a, n - b + a - 1)[i] = q[i]
    <3> SUFFICES ASSUME NEW i \in 1..(n - b) PROVE SubSeq(r, a, n - b + a - 1)[i] = q[i]
      OBVIOUS
    <3>1. a + i - 1 \in 1..(n - b + a - 1) /\ ~(a + i - 1 <= a - 1) /\ (a + i - 1) - (a - 1) = i
      BY <1>1
    <3> QED
      BY <1>5, <2>1, <3>1
  <2> QED
    BY <1>3, <2>1, <2>2, SeqEqual
<1> QED
  BY <1>1, <1>5, <1>6, <1>7 DEF n, p, q, r

\* An item is moved: those between its old and its new place give way.
LEMMA ItemMoved ==
    ASSUME NEW S, NEW l \in Seq(S), NEW from \in Int, NEW to \in Int
    PROVE  LET m == Moved(l, from, to)
           IN  /\ m \in Seq(S) /\ Len(m) = Len(l)
               /\ ~(from \in DOMAIN l /\ to \in DOMAIN l) => m = l
               /\ from \in DOMAIN l /\ to \in DOMAIN l =>
                     \A i \in 1..Len(l) :
                        m[i] = IF i = to THEN l[from]
                               ELSE IF i < to THEN (IF i < from THEN l[i] ELSE l[i + 1])
                               ELSE IF i - 1 < from THEN l[i - 1] ELSE l[i]
<1> DEFINE n == Len(l)
           m == Moved(l, from, to)
<1>1. n \in Nat /\ DOMAIN l = 1..n /\ \A i \in 1..n : l[i] \in S
  BY LenProperties
<1>2. CASE ~(from \in DOMAIN l /\ to \in DOMAIN l)
  BY <1>2 DEF Moved
<1>3. CASE from \in DOMAIN l /\ to \in DOMAIN l
  <2> DEFINE p == SubSeq(l, 1, from - 1)
             q == SubSeq(l, from + 1, n)
             r == RemoveAt(l, from)
             u == SubSeq(r, 1, to - 1)
             v == SubSeq(r, to, Len(r))
  <2>1. p \in Seq(S) /\ Len(p) = from - 1 /\ \A i \in 1..(from - 1) : p[i] = l[i]
    BY <1>1, <1>3, PieceFacts
  <2>2. q \in Seq(S) /\ Len(q) = n - from /\ \A i \in 1..(n - from) : q[i] = l[from + i]
    <3>1. n - (from + 1) + 1 = n - from /\ from + 1 \in Int /\ from + 1 >= 1 /\ n <= Len(l)
      BY <1>1, <1>3
    <3>2. /\ q \in Seq(S) /\ Len(q) = IF from + 1 <= n THEN n - (from + 1) + 1 ELSE 0
          /\ \A i \in 1..(n - (from + 1) + 1) : q[i] = l[from + 1 + i - 1]
      BY <1>1, <3>1, PieceFacts
    <3> HIDE DEF q, n
    <3> QED
      BY <1>1, <1>3, <3>1, <3>2
  <2>3. r = p \o q
    BY DEF RemoveAt
  <2>4. m = u \o <<l[from]>> \o v
    BY <1>3 DEF Moved, InsertAt
  <2> HIDE DEF p, q, r, m
  <2>5. /\ r \in Seq(S) /\ Len(r) = n - 1
        /\ \A i \in 1..(n - 1) : r[i] = IF i < from THEN l[i] ELSE l[i + 1]
    <3>1. /\ r \in Seq(S) /\ Len(r) = n - 1
          /\ \A i \in 1..(n - 1) : r[i] = IF i <= from - 1 THEN p[i] ELSE q[i - (from - 1)]
      <4>1. r \in Seq(S) /\ Len(r) = from - 1 + (n - from)
            /\ \A i \in 1..Len(r) : r[i] = IF i <= from - 1 THEN p[i] ELSE q[i - (from - 1)]
        <5>1. r \in Seq(S) /\ Len(r) = Len(p) + Len(q)
              /\ \A i \in 1..Len(r) : r[i] = IF i <= Len(p) THEN p[i] ELSE q[i - Len(p)]
          BY <2>1, <2>2, <2>3, JoinFacts
        <5> QED
          BY <2>1, <2>2, <5>1
      <4>2. from - 1 + (n - from) = n - 1
        BY <1>1
      <4> QED
        BY <4>1, <4>2
    <3>2. ASSUME NEW i \in 1..(n - 1) PROVE r[i] = IF i < from THEN l[i] ELSE l[i + 1]
      <4>1. CASE i < from
        BY <1>1, <1>3, <2>1, <3>1, <4>1
      <4>2. CASE ~(i < from)
        <5>1. i - (from - 1) \in 1..(n - from) /\ from + (i - (from - 1)) = i + 1 /\ ~(i <= from - 1)
          BY <1>1, <1>3, <4>2
        <5> QED
          BY <2>2, <3>1, <4>2, <5>1
      <4> QED
        BY <4>1, <4>2
    <3> QED
      BY <3>1, <3>2
  <2>6. u \in Seq(S) /\ Len(u) = to - 1 /\ \A i \in 1..(to - 1) : u[i] = r[i]
    BY <1>1, <1>3, <2>5, PieceFacts
  <2>7. v \in Seq(S) /\ Len(v) = n - to /\ \A i \in 1..(n - to) : v[i] = r[to + i - 1]
    <3>1. n - 1 - to + 1 = n - to /\ n - 1 \in Int /\ to >= 1 /\ n - 1 <= Len(r) /\ Len(r) = n - 1
      BY <1>1, <1>3, <2>5
    <3>2. /\ v \in Seq(S) /\ Len(v) = IF to <= n - 1 THEN n - 1 - to + 1 ELSE 0
          /\ \A i \in 1..(n - 1 - to + 1) : v[i] = r[to + i - 1]
      BY <2>5, <3>1, PieceFacts
    <3> HIDE DEF v, n
    <3> QED
      BY <1>1, <1>3, <3>1, <3>2
  <2>8. <<l[from]>> \in Seq(S) /\ Len(<<l[from]>>) = 1 /\ <<l[from]>>[1] = l[from]
    BY <1>1, <1>3
  <2> HIDE DEF u, v
  <2> DEFINE w == u \o <<l[from]>>
  <2>9. /\ w \in Seq(S) /\ Len(w) = to
        /\ \A i \in 1..to : w[i] = IF i <= to - 1 THEN u[i] ELSE <<l[from]>>[i - (to - 1)]
    BY <1>1, <1>3, <2>6, <2>8, ConcatProperties
  <2> HIDE DEF w
  <2>10. m = w \o v
    BY <2>4 DEF w
  <2>11. /\ m \in Seq(S) /\ Len(m) = n
         /\ \A i \in 1..n : m[i] = IF i <= to THEN w[i] ELSE v[i - to]
    <3>1. m \in Seq(S) /\ Len(m) = to + (n - to)
          /\ \A i \in 1..Len(m) : m[i] = IF i <= to THEN w[i] ELSE v[i - to]
      BY <2>7, <2>9, <2>10, JoinFacts
    <3>2. to + (n - to) = n
      BY <1>1
    <3> QED
      BY <3>1, <3>2
  <2>12. ASSUME NEW i \in 1..n
         PROVE  m[i] = IF i = to THEN l[from]
                       ELSE IF i < to THEN (IF i < from THEN l[i] ELSE l[i + 1])
                       ELSE IF i - 1 < from THEN l[i - 1] ELSE l[i]
    <3>1. CASE i = to
      <4>1. to - (to - 1) = 1 /\ ~(to <= to - 1) /\ to \in 1..to
        BY <1>1, <1>3
      <4> QED
        <5>1. m[i] = w[to]
          BY <1>1, <1>3, <2>11, <3>1
        <5>2. w[to] = <<l[from]>>[1]
          BY <2>9, <4>1
        <5> QED
          BY <2>8, <3>1, <5>1, <5>2
    <3>2. CASE i < to
      <4>1. i \in 1..to /\ i \in 1..(to - 1) /\ i \in 1..(n - 1) /\ i <= to /\ i <= to - 1
        BY <1>1, <1>3, <3>2
      <4>2. m[i] = r[i]
        BY <2>6, <2>9, <2>11, <4>1
      <4> QED
        BY <2>5, <3>2, <4>1, <4>2
    <3>3. CASE i > to
      <4>1. /\ i - to \in 1..(n - to) /\ to + (i - to) - 1 = i - 1 /\ ~(i <= to) /\ i - 1 \in 1..(n - 1)
            /\ (i - 1) + 1 = i
        BY <1>1, <1>3, <3>3
      <4>2. m[i] = r[i - 1]
        BY <2>7, <2>11, <4>1
      <4> QED
        BY <2>5, <3>3, <4>1, <4>2
    <3> QED
      BY <1>1, <1>3, <3>1, <3>2, <3>3
  <2> QED
    BY <1>3, <2>11, <2>12 DEF m
<1> QED
  BY <1>2, <1>3

\* A selection that gives way to the item above or below it is still the same songs.
LEMMA SelectionMoved ==
    ASSUME NEW S, NEW l \in Seq(S), NEW a \in Int, NEW b \in Int, a <= b
    PROVE  /\ a >= 2 /\ b <= Len(l) => SubSeq(Moved(l, a - 1, b), a - 1, b - 1) = SubSeq(l, a, b)
           /\ a >= 1 /\ b + 1 <= Len(l) => SubSeq(Moved(l, b + 1, a), a + 1, b + 1) = SubSeq(l, a, b)
<1> DEFINE n == Len(l)
<1>1. n \in Nat /\ DOMAIN l = 1..n
  BY LenProperties
<1>2. ASSUME a >= 2, b <= n
      PROVE  SubSeq(Moved(l, a - 1, b), a - 1, b - 1) = SubSeq(l, a, b)
  <2> DEFINE m == Moved(l, a - 1, b)
             p == SubSeq(m, a - 1, b - 1)
             q == SubSeq(l, a, b)
  <2>1. /\ m \in Seq(S) /\ Len(m) = n
        /\ \A i \in (a - 1)..(b - 1) : m[i] = l[i + 1]
    <3>1. a - 1 \in DOMAIN l /\ b \in DOMAIN l /\ a - 1 \in Int
      BY <1>1, <1>2
    <3>2. /\ m \in Seq(S) /\ Len(m) = n
          /\ \A i \in 1..n :
                m[i] = IF i = b THEN l[a - 1]
                       ELSE IF i < b THEN (IF i < a - 1 THEN l[i] ELSE l[i + 1])
                       ELSE IF i - 1 < a - 1 THEN l[i - 1] ELSE l[i]
      BY <3>1, ItemMoved
    <3> HIDE DEF m
    <3>3. ASSUME NEW i \in (a - 1)..(b - 1) PROVE m[i] = l[i + 1]
      <4>1. i \in 1..n /\ i # b /\ i < b /\ ~(i < a - 1)
        BY <1>1, <1>2
      <4> QED
        BY <3>2, <4>1
    <3> QED
      BY <3>2, <3>3
  <2> HIDE DEF m
  <2>2. p \in Seq(S) /\ Len(p) = b - a + 1 /\ \A i \in 1..(b - a + 1) : p[i] = m[a - 1 + i - 1]
    BY <1>1, <1>2, <2>1, PieceFacts
  <2>3. q \in Seq(S) /\ Len(q) = b - a + 1 /\ \A i \in 1..(b - a + 1) : q[i] = l[a + i - 1]
    BY <1>1, <1>2, PieceFacts
  <2> HIDE DEF p, q
  <2>4. \A i \in 1..(b - a + 1) : p[i] = q[i]
    <3> SUFFICES ASSUME NEW i \in 1..(b - a + 1) PROVE p[i] = q[i]
      OBVIOUS
    <3>1. a - 1 + i - 1 \in (a - 1)..(b - 1) /\ (a - 1 + i - 1) + 1 = a + i - 1
      OBVIOUS
    <3> QED
      BY <2>1, <2>2, <2>3, <3>1
  <2>5. p = q
    BY <2>2, <2>3, <2>4, SeqEqual
  <2> QED
    BY <2>5 DEF p, q, m
<1>3. ASSUME a >= 1, b + 1 <= n
      PROVE  SubSeq(Moved(l, b + 1, a), a + 1, b + 1) = SubSeq(l, a, b)
  <2> DEFINE m == Moved(l, b + 1, a)
             p == SubSeq(m, a + 1, b + 1)
             q == SubSeq(l, a, b)
  <2>1. /\ m \in Seq(S) /\ Len(m) = n
        /\ \A i \in (a + 1)..(b + 1) : m[i] = l[i - 1]
    <3>1. b + 1 \in DOMAIN l /\ a \in DOMAIN l /\ b + 1 \in Int
      BY <1>1, <1>3
    <3>2. /\ m \in Seq(S) /\ Len(m) = n
          /\ \A i \in 1..n :
                m[i] = IF i = a THEN l[b + 1]
                       ELSE IF i < a THEN (IF i < b + 1 THEN l[i] ELSE l[i + 1])
                       ELSE IF i - 1 < b + 1 THEN l[i - 1] ELSE l[i]
      BY <3>1, ItemMoved
    <3> HIDE DEF m
    <3>3. ASSUME NEW i \in (a + 1)..(b + 1) PROVE m[i] = l[i - 1]
      <4>1. i \in 1..n /\ i # a /\ ~(i < a) /\ i - 1 < b + 1
        BY <1>1, <1>3
      <4> QED
        BY <3>2, <4>1
    <3> QED
      BY <3>2, <3>3
  <2> HIDE DEF m
  <2>2. p \in Seq(S) /\ Len(p) = b - a + 1 /\ \A i \in 1..(b - a + 1) : p[i] = m[a + 1 + i - 1]
    BY <1>1, <1>3, <2>1, PieceFacts
  <2>3. q \in Seq(S) /\ Len(q) = b - a + 1 /\ \A i \in 1..(b - a + 1) : q[i] = l[a + i - 1]
    BY <1>1, <1>3, PieceFacts
  <2> HIDE DEF p, q
  <2>4. \A i \in 1..(b - a + 1) : p[i] = q[i]
    <3> SUFFICES ASSUME NEW i \in 1..(b - a + 1) PROVE p[i] = q[i]
      OBVIOUS
    <3>1. a + 1 + i - 1 \in (a + 1)..(b + 1) /\ (a + 1 + i - 1) - 1 = a + i - 1
      OBVIOUS
    <3> QED
      BY <2>1, <2>2, <2>3, <3>1
  <2>5. p = q
    BY <2>2, <2>3, <2>4, SeqEqual
  <2> QED
    BY <2>5 DEF p, q, m
<1> QED
  BY <1>2, <1>3

-----------------------------------------------------------------------------
(* The editor's invariant *)

\* Types, and what holds even within a call: the playlist that will be shown next is known only
\* until the page is updated, and nothing is listed of no playlist.
EditPlain(e) ==
    /\ e \in Editors /\ e.length = Len(e.list)
    /\ e.name = NoPlaylist => e.list = <<>>

\* The list is the playlist's.
ListRight(e) == e.list = IF e.name = NoPlaylist THEN <<>> ELSE e.stored[e.name]

\* The cursor is on the selected song.
OnSelected(e) ==
    ~e.strayed /\ e.selected # NoEditSong => e.cursor \in DOMAIN e.list /\ e.list[e.cursor] = e.selected

\* With events that have been seen, nothing is on its way but what makes the page load.
EditSettled(e) ==
    /\ EditPlain(e) /\ e.next = NoPlaylist
    /\ e.conn /\ ~e.pending /\ ~e.news => ListRight(e) /\ OnSelected(e)

EditSafe(e) ==
    /\ EditPlain(e) /\ e.next = NoPlaylist
    /\ e.conn /\ ~e.pending /\ ~e.events /\ ~e.news => ListRight(e) /\ OnSelected(e)

\* What a reload leaves alone
SameStore(f, e) == f.name = e.name /\ f.stored = e.stored /\ f.open = e.open

LEMMA SettledIsSafe == \A e : EditSettled(e) => EditSafe(e)
BY DEF EditSettled, EditSafe

-----------------------------------------------------------------------------
(* The list window and the selection *)

LEMMA ValidTypes == ASSUME NEW i, NEW n \in Nat PROVE Valid(i, n) \in Nat
BY DEF Valid

LEMMA RangeTypes ==
    ASSUME NEW e \in Editors
    PROVE  RangeStart(e) \in Int /\ RangeEnd(e) \in Int /\ Valid(e.base, e.length) \in Int
BY DEF Editors, RangeStart, RangeEnd, Valid, Nothing

\* The cursor moves, and nothing else that matters does.
LEMMA CursorSet ==
    ASSUME NEW e \in Editors, NEW i
    PROVE  LET f == EditSetCursor(e, i)
           IN  /\ f \in Editors
               /\ SameStore(f, e) /\ f.list = e.list /\ f.length = e.length /\ f.next = e.next
               /\ f.conn = e.conn /\ f.idle = e.idle /\ f.pending = e.pending /\ f.events = e.events
               /\ f.news = e.news
<1> DEFINE c == Valid(i, e.length)
           b == 1
           f == [e EXCEPT !.range = FALSE, !.base = b, !.cursor = c]
<1>1. c \in Int /\ b \in Int
  BY ValidTypes DEF Editors
<1>2. EditSetCursor(e, i) = f
  BY DEF EditSetCursor
<1> HIDE DEF b, c
<1>3. f \in Editors
  BY <1>1 DEF Editors
<1>4. /\ SameStore(f, e) /\ f.list = e.list /\ f.length = e.length /\ f.next = e.next
      /\ f.conn = e.conn /\ f.idle = e.idle /\ f.pending = e.pending /\ f.events = e.events
      /\ f.news = e.news
  BY DEF Editors, SameStore
<1> QED
  BY <1>2, <1>3, <1>4

LEMMA SelectionSaved ==
    ASSUME NEW e \in Editors, e.length = Len(e.list)
    PROVE  LET f == SaveSelection(e)
           IN  /\ f \in Editors /\ OnSelected(f)
               /\ SameStore(f, e) /\ f.list = e.list /\ f.length = e.length /\ f.next = e.next
               /\ f.conn = e.conn /\ f.idle = e.idle /\ f.pending = e.pending /\ f.events = e.events
               /\ f.news = e.news /\ f.cursor = e.cursor /\ f.range = e.range /\ f.base = e.base
<1> DEFINE a == RangeStart(e)
           x == IF a = RangeEnd(e) /\ a \in DOMAIN e.list THEN e.list[a] ELSE NoEditSong
           f == [e EXCEPT !.selected = x, !.strayed = FALSE]
<1>1. SaveSelection(e) = f
  BY DEF SaveSelection
<1>2. e.list \in Seq(EditSongs) /\ e.cursor \in Int /\ e.base \in Int /\ e.range \in BOOLEAN
  BY DEF Editors
<1>3. x \in EditSongs \cup {NoEditSong}
  BY <1>2, LenProperties
<1>4. x # NoEditSong => e.cursor \in DOMAIN e.list /\ e.list[e.cursor] = x
  <2>1. a = RangeEnd(e) => a = e.cursor
    BY <1>2 DEF RangeStart, RangeEnd
  <2> QED
    BY <2>1
<1> HIDE DEF x
<1>5. f \in Editors
  BY <1>3 DEF Editors
<1>6. f.cursor = e.cursor /\ f.list = e.list /\ f.selected = x
  BY DEF Editors
<1>7. OnSelected(f)
  BY <1>4, <1>6 DEF OnSelected
<1>8. /\ SameStore(f, e) /\ f.list = e.list /\ f.length = e.length /\ f.next = e.next
      /\ f.conn = e.conn /\ f.idle = e.idle /\ f.pending = e.pending /\ f.events = e.events
      /\ f.news = e.news /\ f.cursor = e.cursor /\ f.range = e.range /\ f.base = e.base
  BY DEF Editors, SameStore
<1> QED
  BY <1>1, <1>5, <1>7, <1>8

\* Whatever the list has become, the cursor is on the selected song after that.
LEMMA SelectionRestored ==
    ASSUME NEW e \in Editors, e.length = Len(e.list)
    PROVE  LET f == RestoreSelection(e)
           IN  /\ f \in Editors /\ OnSelected(f)
               /\ SameStore(f, e) /\ f.list = e.list /\ f.length = e.length /\ f.next = e.next
               /\ f.conn = e.conn /\ f.idle = e.idle /\ f.pending = e.pending /\ f.events = e.events
               /\ f.news = e.news
<1>1. CASE e.selected = NoEditSong
  BY <1>1 DEF RestoreSelection, OnSelected, SameStore
<1>2. CASE e.selected # NoEditSong
  <2>1. PICK i : RestoreSelection(e) = SaveSelection(IF i > 0 THEN EditSetCursor(e, i) ELSE e)
    BY <1>2 DEF RestoreSelection
  <2>2. PICK g : /\ g \in {e, EditSetCursor(e, i)}
                 /\ RestoreSelection(e) = SaveSelection(g)
    BY <2>1
  <2>3. /\ g \in Editors /\ SameStore(g, e) /\ g.list = e.list /\ g.length = e.length /\ g.next = e.next
        /\ g.conn = e.conn /\ g.idle = e.idle /\ g.pending = e.pending /\ g.events = e.events
        /\ g.news = e.news
    BY <2>2, CursorSet DEF SameStore
  <2> QED
    BY <2>2, <2>3, SelectionSaved DEF SameStore
<1> QED
  BY <1>1, <1>2

-----------------------------------------------------------------------------
(* Loading *)

\* A list that is loaded is typed, and what surrounds it stays.
LEMMA ListLoaded ==
    ASSUME NEW e \in Editors, NEW l \in Seq(EditSongs)
    PROVE  LET f == Loads(e, l)
           IN  /\ f \in Editors /\ SameStore(f, e) /\ f.list = l /\ f.length = Len(f.list)
               /\ f.next = e.next /\ f.conn = e.conn /\ f.idle = e.idle /\ f.pending = e.pending
               /\ f.events = e.events /\ f.news = e.news
<1> DEFINE g == [e EXCEPT !.list = l]
           n == Len(l)
           c == Valid(g.cursor, n)
           b == IF g.range THEN Valid(g.base, n) ELSE g.base
           f == [g EXCEPT !.length = n, !.cursor = c, !.base = b]
<1>1. n \in Nat
  BY LenProperties
<1>2. /\ g \in Editors /\ SameStore(g, e) /\ g.list = l /\ g.next = e.next /\ g.conn = e.conn
      /\ g.idle = e.idle /\ g.pending = e.pending /\ g.events = e.events /\ g.news = e.news
  BY DEF Editors, SameStore
<1>3. Loads(e, l) = IF n = g.length THEN g ELSE f
  BY DEF Loads, EditSetLength
<1> HIDE DEF g, n
<1>4. c \in Int /\ b \in Int
  BY <1>1, <1>2, ValidTypes DEF Editors
<1> HIDE DEF c, b
<1>5. /\ f \in Editors /\ SameStore(f, g) /\ f.list = g.list /\ f.length = n /\ f.next = g.next
      /\ f.conn = g.conn /\ f.idle = g.idle /\ f.pending = g.pending /\ f.events = g.events
      /\ f.news = g.news
  BY <1>1, <1>2, <1>4 DEF Editors, SameStore
<1> HIDE DEF f
<1>6. CASE n = g.length
  BY <1>1, <1>2, <1>3, <1>6 DEF n
<1>7. CASE n # g.length
  BY <1>1, <1>2, <1>3, <1>5, <1>7 DEF n, SameStore
<1> QED
  BY <1>6, <1>7

\* TakeNext(): of another playlist nothing is listed yet, and no song selected.
LEMMA NextTaken ==
    ASSUME EditorAssumption, NEW e, EditPlain(e)
    PROVE  LET f == TakeNext(e)
           IN  /\ EditPlain(f) /\ f.next = NoPlaylist
               /\ f.stored = e.stored /\ f.open = e.open /\ f.conn = e.conn /\ f.idle = e.idle
               /\ f.events = e.events /\ f.news = e.news
               /\ e.pending => f.pending
               /\ ~f.pending => /\ f.name = e.name /\ f.list = e.list /\ f.cursor = e.cursor
                                /\ f.selected = e.selected /\ f.strayed = e.strayed
                                /\ e.pending = FALSE
               /\ e.next = NoPlaylist => f.name = e.name
<1>1. e \in Editors /\ e.length = Len(e.list)
  BY DEF EditPlain
<1>2. CASE e.next \in {NoPlaylist, e.name}
  <2> DEFINE f == [e EXCEPT !.next = NoPlaylist]
  <2>1. TakeNext(e) = f
    BY <1>2 DEF TakeNext
  <2>2. /\ f \in Editors /\ f.next = NoPlaylist /\ f.name = e.name /\ f.list = e.list
        /\ f.cursor = e.cursor /\ f.selected = e.selected /\ f.strayed = e.strayed
        /\ f.stored = e.stored /\ f.open = e.open /\ f.conn = e.conn /\ f.idle = e.idle
        /\ f.events = e.events /\ f.news = e.news /\ f.pending = e.pending /\ f.length = e.length
    BY <1>1 DEF Editors
  <2>3. e.pending \in BOOLEAN
    BY <1>1 DEF Editors
  <2> HIDE DEF f
  <2> QED
    BY <2>1, <2>2, <2>3 DEF EditPlain
<1>3. CASE e.next \notin {NoPlaylist, e.name}
  <2> DEFINE g == EditSetCursor(e, 1)
             p == e.next
             f == [g EXCEPT !.selected = NoEditSong, !.strayed = FALSE, !.name = p,
                            !.next = NoPlaylist, !.pending = TRUE]
  <2>1. TakeNext(e) = f
    BY <1>3 DEF TakeNext
  <2>2. /\ g \in Editors /\ SameStore(g, e) /\ g.list = e.list /\ g.length = e.length
        /\ g.conn = e.conn /\ g.idle = e.idle /\ g.events = e.events /\ g.news = e.news
    BY <1>1, CursorSet
  <2>3. p \in Playlists
    BY <1>1, <1>3 DEF Editors
  <2> HIDE DEF g, p
  <2>4. /\ f \in Editors /\ f.next = NoPlaylist /\ f.name = p /\ f.list = g.list /\ f.length = g.length
        /\ f.stored = g.stored /\ f.open = g.open /\ f.conn = g.conn /\ f.idle = g.idle
        /\ f.events = g.events /\ f.news = g.news /\ f.pending = TRUE
    BY <2>2, <2>3 DEF Editors
  <2> HIDE DEF f
  <2>5. p # NoPlaylist /\ e.next # NoPlaylist
    BY <1>3, <2>3, EditorAssumption DEF EditorAssumption
  <2> QED
    BY <1>1, <2>1, <2>2, <2>4, <2>5 DEF EditPlain, SameStore
<1> QED
  BY <1>2, <1>3

\* What LoadPlaylist() may leave of e, and the page before it is loaded
FetchedFrom(g, e) ==
    /\ EditPlain(g) /\ g.next = NoPlaylist /\ SameStore(g, e)
    /\ g.conn /\ ~g.news => ListRight(g)
Loading(e) == [TakeNext(e) EXCEPT !.pending = FALSE]

LEMMA LoadingTypes ==
    ASSUME EditorAssumption, NEW e, EditPlain(e), TakeNext(e).pending
    PROVE  /\ EditPlain(Loading(e)) /\ Loading(e).next = NoPlaylist
           /\ Loading(e).stored = e.stored /\ Loading(e).open = e.open /\ Loading(e).conn = e.conn
           /\ e.next = NoPlaylist => Loading(e).name = e.name
<1> DEFINE f == TakeNext(e)
           g == [f EXCEPT !.pending = FALSE]
<1>1. /\ EditPlain(f) /\ f.next = NoPlaylist /\ f.stored = e.stored /\ f.open = e.open /\ f.conn = e.conn
      /\ e.next = NoPlaylist => f.name = e.name
  BY NextTaken
<1>2. Loading(e) = g
  BY DEF Loading
<1> HIDE DEF f
<1>3. /\ g \in Editors /\ g.name = f.name /\ g.list = f.list /\ g.length = f.length /\ g.next = f.next
      /\ g.stored = f.stored /\ g.open = f.open /\ g.conn = f.conn
  BY <1>1 DEF EditPlain, Editors
<1> QED
  BY <1>1, <1>2, <1>3 DEF EditPlain

\* Update(), whatever has been fetched
LEMMA PageUpdated ==
    ASSUME EditorAssumption, NEW e, EditPlain(e), e.open \/ e.next = NoPlaylist,
           NEW S, TakeNext(e).pending => \A h \in S : FetchedFrom(h, Loading(e)),
           NEW g \in IF ~e.open THEN {e} ELSE IF ~TakeNext(e).pending THEN {TakeNext(e)}
                     ELSE {RestoreSelection(h) : h \in S}
    PROVE  /\ EditPlain(g) /\ g.next = NoPlaylist
           /\ (e.conn /\ ~e.pending /\ ~e.news => ListRight(e) /\ OnSelected(e)) => EditSettled(g)
           /\ (e.conn /\ ~e.pending /\ ~e.events /\ ~e.news => ListRight(e) /\ OnSelected(e)) => EditSafe(g)
           /\ g.stored = e.stored /\ g.open = e.open
           /\ e.next = NoPlaylist => g.name = e.name
<1>1. CASE ~e.open
  BY <1>1 DEF EditSettled, EditSafe
<1>2. CASE e.open /\ ~TakeNext(e).pending
  <2>1. /\ g = TakeNext(e) /\ ~g.pending
    BY <1>2
  <2>2. /\ EditPlain(g) /\ g.next = NoPlaylist
        /\ g.stored = e.stored /\ g.open = e.open /\ g.conn = e.conn /\ g.news = e.news
        /\ g.events = e.events /\ g.name = e.name /\ g.list = e.list /\ g.cursor = e.cursor
        /\ g.selected = e.selected /\ g.strayed = e.strayed /\ e.pending = FALSE
    BY <2>1, NextTaken
  <2>3. ListRight(e) /\ OnSelected(e) => ListRight(g) /\ OnSelected(g)
    BY <2>2 DEF ListRight, OnSelected
  <2> QED
    BY <2>2, <2>3 DEF EditSettled, EditSafe
<1>3. CASE e.open /\ TakeNext(e).pending
  <2>1. PICK h \in S : g = RestoreSelection(h)
    BY <1>3
  <2>2. FetchedFrom(h, Loading(e))
    BY <1>3
  <2>3. h \in Editors /\ h.length = Len(h.list)
    BY <2>2 DEF FetchedFrom, EditPlain
  <2>4. /\ g \in Editors /\ OnSelected(g) /\ SameStore(g, h) /\ g.list = h.list /\ g.length = h.length
        /\ g.next = h.next /\ g.conn = h.conn /\ g.news = h.news
    BY <2>1, <2>3, SelectionRestored
  <2>5. h.stored = e.stored /\ h.open = e.open /\ (e.next = NoPlaylist => h.name = e.name)
    BY <1>3, <2>2, LoadingTypes DEF FetchedFrom, SameStore
  <2>6. EditPlain(g) /\ g.next = NoPlaylist /\ (g.conn /\ ~g.news => ListRight(g))
    BY <2>2, <2>4 DEF FetchedFrom, EditPlain, ListRight, SameStore
  <2>7. g.stored = e.stored /\ g.open = e.open /\ (e.next = NoPlaylist => g.name = e.name)
    BY <2>4, <2>5 DEF SameStore
  <2> QED
    BY <2>4, <2>6, <2>7 DEF EditSettled, EditSafe
<1> QED
  BY <1>1, <1>2, <1>3

LEMMA EmptyListFetched ==
    ASSUME NEW e, EditPlain(e), e.next = NoPlaylist, ~e.conn \/ e.name = NoPlaylist
    PROVE  FetchedFrom(Loads(e, <<>>), e)
<1> DEFINE l == <<>>
           f == Loads(e, l)
<1>1. e \in Editors /\ l \in Seq(EditSongs)
  BY DEF EditPlain
<1>2. /\ f \in Editors /\ SameStore(f, e) /\ f.list = l /\ f.length = Len(f.list)
      /\ f.next = e.next /\ f.conn = e.conn /\ f.news = e.news
  BY <1>1, ListLoaded
<1> HIDE DEF f
<1>3. FetchedFrom(f, e)
  BY <1>2 DEF FetchedFrom, EditPlain, ListRight, SameStore
<1> QED
  BY <1>3 DEF f

\* Disconnect() and what the page does about it
LEMMA Disconnected ==
    ASSUME EditorAssumption, NEW e, EditPlain(e), e.next = NoPlaylist
    PROVE  LET f == EditDisconnect(e) IN EditSettled(f) /\ f.conn = FALSE /\ SameStore(f, e)
<1> DEFINE lost == [e EXCEPT !.conn = FALSE, !.idle = FALSE, !.news = FALSE, !.events = TRUE,
                             !.pending = TRUE]
           S == NothingFetched(Loading(lost))
           U == IF ~lost.open THEN {lost} ELSE IF ~TakeNext(lost).pending THEN {TakeNext(lost)}
                ELSE {RestoreSelection(h) : h \in S}
<1>1. EditDisconnect(e) = CHOOSE f \in U : TRUE
  BY DEF EditDisconnect, EditUpdate, Loading
<1>2. /\ lost \in Editors /\ SameStore(lost, e) /\ lost.list = e.list /\ lost.length = e.length
      /\ lost.next = e.next /\ lost.conn = FALSE /\ lost.pending = TRUE
  BY DEF EditPlain, Editors, SameStore
<1> HIDE DEF lost
<1>3. EditPlain(lost)
  BY <1>2 DEF EditPlain, SameStore
<1>4. S = {Loads(Loading(lost), <<>>)}
  BY DEF NothingFetched
<1>5. TakeNext(lost).pending
  BY <1>2, <1>3, NextTaken
<1>6. EditPlain(Loading(lost)) /\ Loading(lost).next = NoPlaylist /\ Loading(lost).conn = FALSE
  BY <1>2, <1>3, <1>5, LoadingTypes
<1>7. \A h \in S : FetchedFrom(h, Loading(lost))
  BY <1>4, <1>6, EmptyListFetched
<1>8. \A g \in U : EditSettled(g) /\ g.stored = lost.stored /\ g.open = lost.open /\ g.name = lost.name
  BY <1>2, <1>3, <1>7, PageUpdated DEF EditPlain
<1>9. \A g \in U : g.conn = FALSE
  <2> SUFFICES ASSUME NEW g \in U PROVE g.conn = FALSE
    OBVIOUS
  <2>1. CASE ~lost.open
    BY <1>2, <2>1
  <2>2. CASE lost.open
    <3>1. g = RestoreSelection(Loads(Loading(lost), <<>>))
      BY <1>4, <1>5, <2>2
    <3>2. Loading(lost) \in Editors /\ <<>> \in Seq(EditSongs)
      BY <1>6 DEF EditPlain
    <3>3. /\ Loads(Loading(lost), <<>>) \in Editors
          /\ Loads(Loading(lost), <<>>).length = Len(Loads(Loading(lost), <<>>).list)
          /\ Loads(Loading(lost), <<>>).conn = FALSE
      <4> DEFINE k == Loading(lost)
                 l == <<>>
      <4>1. k \in Editors /\ l \in Seq(EditSongs) /\ k.conn = FALSE
        BY <1>6, <3>2
      <4> HIDE DEF k, l
      <4>2. Loads(k, l) \in Editors /\ Loads(k, l).length = Len(Loads(k, l).list) /\ Loads(k, l).conn = FALSE
        BY <4>1, ListLoaded
      <4> QED
        BY <4>2 DEF k, l
    <3> QED
      BY <3>1, <3>3, SelectionRestored
  <2> QED
    BY <2>1, <2>2
<1>10. U # {}
  BY <1>4, <1>5
<1>11. EditDisconnect(e) \in U
  BY <1>1, <1>10
<1> QED
  BY <1>2, <1>8, <1>9, <1>11 DEF SameStore

LEMMA PlaylistFetched ==
    ASSUME EditorAssumption, NEW e, EditPlain(e), e.next = NoPlaylist, NEW g \in Fetch(e)
    PROVE  FetchedFrom(g, e)
<1>1. CASE ~e.conn \/ e.name = NoPlaylist
  BY <1>1, EmptyListFetched DEF Fetch
<1>2. CASE e.conn /\ e.name # NoPlaylist
  <2> DEFINE l == e.stored[e.name]
             d == EditDisconnect(e)
  <2>1. e \in Editors /\ e.name \in Playlists /\ l \in Seq(EditSongs)
    BY <1>2 DEF EditPlain, Editors
  <2>2. /\ g = Loads(e, l)
        \/ \E n \in 0..1 \cap 0..Len(l) : g = Loads(d, SubSeq(l, 1, n))
    BY <1>2 DEF Fetch
  <2>3. EditSettled(d) /\ d.conn = FALSE /\ SameStore(d, e)
    BY Disconnected
  <2>4. CASE g = Loads(e, l)
    <3> HIDE DEF l
    <3>1. /\ g \in Editors /\ SameStore(g, e) /\ g.list = l /\ g.length = Len(g.list)
          /\ g.next = e.next /\ g.conn = e.conn /\ g.news = e.news
      BY <2>1, <2>4, ListLoaded
    <3> QED
      BY <1>2, <3>1 DEF FetchedFrom, EditPlain, ListRight, SameStore, l
  <2>5. CASE \E n \in 0..1 \cap 0..Len(l) : g = Loads(d, SubSeq(l, 1, n))
    <3>1. PICK n \in 0..1 \cap 0..Len(l) : g = Loads(d, SubSeq(l, 1, n))
      BY <2>5
    <3>2. SubSeq(l, 1, n) \in Seq(EditSongs)
      <4>1. n \in Int /\ n <= Len(l) /\ 1 \in Int
        BY <2>1, LenProperties
      <4> QED
        BY <2>1, <4>1, PieceFacts
    <3>3. d \in Editors
      BY <2>3 DEF EditSettled, EditPlain
    <3> HIDE DEF d, l
    <3>4. /\ g \in Editors /\ SameStore(g, d) /\ g.length = Len(g.list)
          /\ g.next = d.next /\ g.conn = d.conn /\ g.news = d.news
      BY <3>1, <3>2, <3>3, ListLoaded
    <3> QED
      BY <1>2, <2>3, <3>4 DEF FetchedFrom, EditSettled, EditPlain, ListRight, SameStore
  <2> QED
    BY <2>2, <2>4, <2>5
<1> QED
  BY <1>1, <1>2

\* GetConnection(): with nothing to be told, it is just left idle mode, or the connection lost.
LEMMA ConnectionTaken ==
    ASSUME EditorAssumption, NEW e, EditPlain(e), e.next = NoPlaylist, NEW f \in EditConnection(e)
    PROVE  /\ EditPlain(f) /\ f.next = NoPlaylist /\ SameStore(f, e)
           /\ EditSafe(e) => EditSafe(f)
           /\ ~e.news => f \in {e, EditDisconnect(e), [e EXCEPT !.idle = FALSE, !.news = FALSE]}
<1> DEFINE d == EditDisconnect(e)
           left == [e EXCEPT !.idle = FALSE, !.news = FALSE]
           told == [left EXCEPT !.pending = TRUE]
           S == Fetch(Loading(told))
           U == IF ~told.open THEN {told} ELSE IF ~TakeNext(told).pending THEN {TakeNext(told)}
                ELSE {RestoreSelection(h) : h \in S}
<1>1. \/ f = e
      \/ f = d
      \/ ~e.news /\ f = left
      \/ e.news /\ \E g \in U : f = [g EXCEPT !.events = FALSE]
  BY DEF EditConnection, EditUpdate, Loading
<1>2. EditSettled(d) /\ SameStore(d, e)
  BY Disconnected
<1>3. /\ left \in Editors /\ SameStore(left, e) /\ left.list = e.list /\ left.length = e.length
      /\ left.next = e.next /\ left.conn = e.conn /\ left.pending = e.pending
      /\ left.events = e.events /\ left.news = FALSE /\ left.cursor = e.cursor
      /\ left.selected = e.selected /\ left.strayed = e.strayed
  BY DEF EditPlain, Editors, SameStore
<1>4. /\ told \in Editors /\ SameStore(told, e) /\ told.list = e.list /\ told.length = e.length
      /\ told.next = e.next /\ told.pending = TRUE
  BY DEF EditPlain, Editors, SameStore
<1>5. CASE f = e
  BY <1>5 DEF SameStore
<1>6. CASE f = d
  BY <1>2, <1>6, SettledIsSafe DEF EditSettled
<1>7. CASE ~e.news /\ f = left
  <2>1. EditPlain(f) /\ f.next = NoPlaylist /\ SameStore(f, e)
    BY <1>3, <1>7 DEF EditPlain, SameStore
  <2>2. EditSafe(e) => EditSafe(f)
    <3> HIDE DEF left
    <3> QED
      BY <1>3, <1>7, <2>1 DEF EditSafe, ListRight, OnSelected, SameStore
  <2> QED
    BY <1>7, <2>1, <2>2
<1>8. CASE e.news /\ \E g \in U : f = [g EXCEPT !.events = FALSE]
  <2>1. PICK g \in U : f = [g EXCEPT !.events = FALSE]
    BY <1>8
  <2> HIDE DEF told
  <2>2. EditPlain(told)
    BY <1>4 DEF EditPlain, SameStore
  <2>3. TakeNext(told).pending
    BY <1>4, <2>2, NextTaken
  <2>4. EditPlain(Loading(told)) /\ Loading(told).next = NoPlaylist
    BY <2>2, <2>3, LoadingTypes
  <2>5. \A h \in S : FetchedFrom(h, Loading(told))
    BY <2>4, PlaylistFetched
  <2>6. EditSettled(g) /\ SameStore(g, e)
    BY <1>4, <2>1, <2>2, <2>5, PageUpdated DEF SameStore
  <2>7. /\ f \in Editors /\ SameStore(f, g) /\ f.list = g.list /\ f.length = g.length
        /\ f.next = g.next /\ f.conn = g.conn /\ f.pending = g.pending /\ f.news = g.news
        /\ f.cursor = g.cursor /\ f.selected = g.selected /\ f.strayed = g.strayed
    BY <2>1, <2>6 DEF EditSettled, EditPlain, Editors, SameStore
  <2>8. EditSettled(f)
    BY <2>6, <2>7 DEF EditSettled, EditPlain, ListRight, OnSelected, SameStore
  <2> QED
    BY <1>8, <2>6, <2>7, <2>8, SettledIsSafe DEF EditSettled, SameStore
<1> QED
  BY <1>1, <1>5, <1>6, <1>7, <1>8

\* Reload(), after the connection was taken
LEMMA PageReloaded ==
    ASSUME EditorAssumption, NEW e, EditPlain(e), e.next = NoPlaylist, NEW g \in Reloaded(e)
    PROVE  FetchedFrom(g, e)
<1>1. CASE e.name = NoPlaylist
  BY <1>1, PlaylistFetched DEF Reloaded
<1>2. CASE e.name # NoPlaylist
  <2>1. PICK f \in EditConnection(e) : g \in Fetch(f)
    BY <1>2 DEF Reloaded
  <2>2. EditPlain(f) /\ f.next = NoPlaylist /\ SameStore(f, e)
    BY ConnectionTaken, Zenon
  <2>3. FetchedFrom(g, f)
    BY <2>1, <2>2, PlaylistFetched
  <2> QED
    BY <2>2, <2>3 DEF FetchedFrom, SameStore
<1> QED
  BY <1>1, <1>2

\* Update()
LEMMA ReloadedUpdate ==
    ASSUME EditorAssumption, NEW e, EditPlain(e), e.open \/ e.next = NoPlaylist,
           NEW g \in EditUpdate(e, Reloaded)
    PROVE  /\ (e.conn /\ ~e.pending /\ ~e.news => ListRight(e) /\ OnSelected(e)) => EditSettled(g)
           /\ (e.conn /\ ~e.pending /\ ~e.events /\ ~e.news => ListRight(e) /\ OnSelected(e)) => EditSafe(g)
<1> DEFINE S == Reloaded(Loading(e))
<1>1. g \in IF ~e.open THEN {e} ELSE IF ~TakeNext(e).pending THEN {TakeNext(e)}
           ELSE {RestoreSelection(h) : h \in S}
  BY DEF EditUpdate, Loading
<1>2. TakeNext(e).pending => \A h \in S : FetchedFrom(h, Loading(e))
  BY LoadingTypes, PageReloaded
<1> QED
  BY <1>1, <1>2, PageUpdated

LEMMA ScreenUpdated ==
    ASSUME EditorAssumption, NEW e, EditSafe(e), NEW g \in EditScreen(e)
    PROVE  EditSafe(g)
<1> DEFINE p == e.pending \/ e.events
           h == [e EXCEPT !.pending = p]
<1>1. PICK f \in EditUpdate(h, Reloaded) : g = [f EXCEPT !.events = FALSE]
  BY DEF EditScreen
<1>2. p \in BOOLEAN /\ (~p => ~e.pending /\ ~e.events) /\ e \in Editors
  BY DEF EditSafe, EditPlain, Editors
<1> HIDE DEF p
<1>3. /\ h \in Editors /\ SameStore(h, e) /\ h.list = e.list /\ h.length = e.length
      /\ h.next = e.next /\ h.conn = e.conn /\ h.pending = p /\ h.news = e.news
      /\ h.cursor = e.cursor /\ h.selected = e.selected /\ h.strayed = e.strayed
  BY <1>2 DEF Editors, SameStore
<1> HIDE DEF h
<1>4. EditSettled(h)
  BY <1>2, <1>3 DEF EditSafe, EditSettled, EditPlain, ListRight, OnSelected, SameStore
<1>5. EditSettled(f)
  BY <1>1, <1>4, ReloadedUpdate DEF EditSettled
<1>6. /\ g \in Editors /\ SameStore(g, f) /\ g.list = f.list /\ g.length = f.length
      /\ g.next = f.next /\ g.conn = f.conn /\ g.pending = f.pending /\ g.news = f.news
      /\ g.cursor = f.cursor /\ g.selected = f.selected /\ g.strayed = f.strayed
  BY <1>1, <1>5 DEF EditSettled, EditPlain, Editors, SameStore
<1>7. EditSettled(g)
  BY <1>5, <1>6 DEF EditSettled, EditPlain, ListRight, OnSelected, SameStore
<1> QED
  BY <1>7, SettledIsSafe

-----------------------------------------------------------------------------
(* Commands *)

\* Saving the selection disturbs nothing, wherever the cursor has gone.
EditListed(e) ==
    /\ EditPlain(e) /\ e.next = NoPlaylist
    /\ e.conn /\ ~e.pending /\ ~e.events /\ ~e.news => ListRight(e)

LEMMA SavedIsSafe ==
    ASSUME NEW e, EditListed(e)
    PROVE  EditSafe(SaveSelection(e)) /\ SameStore(SaveSelection(e), e)
<1> DEFINE f == SaveSelection(e)
<1>1. e \in Editors /\ e.length = Len(e.list)
  BY DEF EditListed, EditPlain
<1>2. /\ f \in Editors /\ OnSelected(f)
      /\ SameStore(f, e) /\ f.list = e.list /\ f.length = e.length /\ f.next = e.next
      /\ f.conn = e.conn /\ f.idle = e.idle /\ f.pending = e.pending /\ f.events = e.events
      /\ f.news = e.news
  BY <1>1, SelectionSaved
<1> HIDE DEF f
<1> QED
  BY <1>2 DEF EditListed, EditSafe, EditPlain, ListRight, SameStore, f

LEMMA SavingIsSafe ==
    ASSUME NEW e, EditSafe(e)
    PROVE  EditSafe(SaveSelection(e)) /\ SameStore(SaveSelection(e), e)
BY SavedIsSafe DEF EditSafe, EditListed

\* A cursor that is set without the selection is known to have strayed, or saved at once.
LEMMA CursorIsSafe ==
    ASSUME NEW e, EditSafe(e), NEW i
    PROVE  /\ EditSafe([EditSetCursor(e, i) EXCEPT !.strayed = TRUE])
           /\ EditSafe(SaveSelection(EditSetCursor(e, i)))
           /\ [EditSetCursor(e, i) EXCEPT !.strayed = TRUE].stored = e.stored
           /\ EditSetCursor(e, i) \in Editors /\ SameStore(EditSetCursor(e, i), e)
<1> DEFINE f == EditSetCursor(e, i)
           g == [f EXCEPT !.strayed = TRUE]
           h == SaveSelection(f)
<1>1. /\ f \in Editors
      /\ SameStore(f, e) /\ f.list = e.list /\ f.length = e.length /\ f.next = e.next
      /\ f.conn = e.conn /\ f.idle = e.idle /\ f.pending = e.pending /\ f.events = e.events
      /\ f.news = e.news
  BY CursorSet DEF EditSafe, EditPlain
<1> HIDE DEF f
<1>2. /\ g \in Editors
      /\ SameStore(g, f) /\ g.list = f.list /\ g.length = f.length /\ g.next = f.next
      /\ g.conn = f.conn /\ g.pending = f.pending /\ g.events = f.events /\ g.news = f.news
      /\ g.strayed = TRUE
  BY <1>1 DEF Editors, SameStore
<1> HIDE DEF g
<1>3. EditSafe(g)
  BY <1>1, <1>2 DEF EditSafe, EditPlain, ListRight, OnSelected, SameStore
<1>4. f.length = Len(f.list)
  BY <1>1 DEF EditSafe, EditPlain
<1>5. /\ h \in Editors /\ OnSelected(h)
      /\ SameStore(h, f) /\ h.list = f.list /\ h.length = f.length /\ h.next = f.next
      /\ h.conn = f.conn /\ h.pending = f.pending /\ h.events = f.events /\ h.news = f.news
  BY <1>1, <1>4, SelectionSaved
<1> HIDE DEF h
<1>6. EditSafe(h)
  BY <1>1, <1>5 DEF EditSafe, EditPlain, ListRight, SameStore
<1> QED
  BY <1>1, <1>2, <1>3, <1>6 DEF f, g, h, SameStore

\* A playlist that MPD changes for us is reloaded before it is relied upon.
LEMMA StoringIsSafe ==
    ASSUME NEW e, EditPlain(e), e.next = NoPlaylist, e.name \in Playlists, NEW l \in Seq(EditSongs)
    PROVE  LET f == Stores(e, l)
           IN  /\ EditSafe(f) /\ f \in Editors /\ f.news = TRUE /\ f.name = e.name /\ f.open = e.open
               /\ f.stored = [e.stored EXCEPT ![e.name] = l]
               /\ f.list = e.list /\ f.length = e.length /\ f.cursor = e.cursor
               /\ f.range = e.range /\ f.base = e.base
<1> DEFINE x == [e.stored EXCEPT ![e.name] = l]
           f == [e EXCEPT !.stored = x, !.news = TRUE]
<1>1. e \in Editors
  BY DEF EditPlain
<1>2. x \in [Playlists -> Seq(EditSongs)]
  <2>1. e.stored \in [Playlists -> Seq(EditSongs)]
    BY <1>1 DEF Editors
  <2> QED
    BY <2>1
<1>3. Stores(e, l) = f
  BY DEF Stores
<1> HIDE DEF x
<1>4. /\ f \in Editors /\ f.news = TRUE /\ f.name = e.name /\ f.open = e.open /\ f.stored = x
      /\ f.list = e.list /\ f.length = e.length /\ f.cursor = e.cursor /\ f.next = e.next
      /\ f.range = e.range /\ f.base = e.base
  BY <1>1, <1>2 DEF Editors
<1> HIDE DEF f
<1> QED
  BY <1>3, <1>4 DEF EditSafe, EditPlain, x

\* ... even when the selection goes up or down with the songs.
LEMMA SteppingIsSafe ==
    ASSUME NEW e, EditSafe(e), e.news = TRUE, NEW d \in Int
    PROVE  LET f == Steps(e, d)
           IN  /\ EditSafe(f) /\ SameStore(f, e) /\ f.length = e.length /\ f.cursor = e.cursor + d
               /\ f.range = e.range /\ f.base = IF e.range THEN e.base + d ELSE e.base
<1> DEFINE c == e.cursor + d
           b == IF e.range THEN e.base + d ELSE e.base
           f == [e EXCEPT !.cursor = c, !.base = b]
<1>1. e \in Editors
  BY DEF EditSafe, EditPlain
<1>2. c \in Int /\ b \in Int
  BY <1>1 DEF Editors
<1>3. Steps(e, d) = f
  BY DEF Steps
<1> HIDE DEF c, b
<1>4. /\ f \in Editors /\ f.news = e.news /\ SameStore(f, e) /\ f.next = e.next
      /\ f.list = e.list /\ f.length = e.length /\ f.cursor = c
      /\ f.range = e.range /\ f.base = b
  BY <1>1, <1>2 DEF Editors, SameStore
<1> HIDE DEF f
<1> QED
  BY <1>3, <1>4 DEF EditSafe, EditPlain, SameStore, c, b

\* What is selected is in a playlist.
LEMMA SelectionMeans ==
    ASSUME NEW e, EditPlain(e)
    PROVE  /\ RangeStart(e) \in Int /\ RangeEnd(e) \in Int
           /\ RangeStart(e) <= RangeEnd(e) \/ RangeEnd(e) < e.length
                 => e.name \in Playlists /\ e.stored[e.name] \in Seq(EditSongs) /\ e.length > 0
           /\ RangeStart(e) <= RangeEnd(e) => e.cursor >= 1
<1>1. /\ e \in Editors /\ e.length = Len(e.list) /\ e.cursor \in Int /\ e.base \in Int
      /\ e.range \in BOOLEAN /\ e.length \in Nat /\ e.list \in Seq(EditSongs)
      /\ e.name \in Playlists \cup {NoPlaylist} /\ e.stored \in [Playlists -> Seq(EditSongs)]
  BY DEF EditPlain, Editors
<1>2. RangeStart(e) \in Int /\ RangeEnd(e) \in Int /\ RangeEnd(e) >= 0
  BY <1>1 DEF RangeStart, RangeEnd, Nothing
<1>3. RangeStart(e) <= RangeEnd(e) => e.length # 0 /\ e.cursor >= 1
  BY <1>1 DEF RangeStart, RangeEnd, Nothing
<1>4. RangeEnd(e) < e.length => e.length # 0
  BY <1>1, <1>2
<1>5. e.length # 0 => e.name # NoPlaylist
  BY <1>1 DEF EditPlain
<1> QED
  BY <1>1, <1>2, <1>3, <1>4, <1>5

\* What is removed has been selected.
LEMMA RemovingIsSafe ==
    ASSUME NEW e, EditSafe(e), e.name \in Playlists, NEW a \in Int, NEW b \in Int, a <= b
    PROVE  LET f == Removes(e, a, b)
               l == e.stored[e.name]
           IN  /\ EditSafe(f)
               /\ \/ f.stored = e.stored
                  \/ /\ 1 <= a /\ b <= Len(l)
                     /\ f.stored = [e.stored EXCEPT ![e.name] = RemoveRange(l, a, b)]
<1> DEFINE l == e.stored[e.name]
           r == RemoveRange(l, a, b)
<1>1. EditPlain(e) /\ e.next = NoPlaylist /\ l \in Seq(EditSongs)
  BY DEF EditSafe, EditPlain, Editors
<1>2. CASE a < 1 \/ b > Len(l)
  BY <1>2 DEF Removes
<1>3. CASE ~(a < 1 \/ b > Len(l))
  <2>1. 1 <= a /\ b <= Len(l)
    BY <1>1, <1>3, LenProperties
  <2>2. r \in Seq(EditSongs)
    BY <1>1, <2>1, RangeRemoved
  <2>3. Removes(e, a, b) = Stores(e, r)
    BY <1>3 DEF Removes
  <2> HIDE DEF r
  <2>4. EditSafe(Stores(e, r)) /\ Stores(e, r).stored = [e.stored EXCEPT ![e.name] = r]
    BY <1>1, <2>2, StoringIsSafe
  <2> QED
    BY <2>1, <2>3, <2>4 DEF r
<1> QED
  BY <1>2, <1>3

LEMMA DeleteIsSafe ==
    ASSUME EditorAssumption, NEW e, EditSafe(e), NEW g \in EditDelete(e)
    PROVE  LET a == RangeStart(e)
               b == RangeEnd(e)
               l == e.stored[e.name]
           IN  /\ EditSafe(g)
               /\ ~e.news => \/ g.stored = e.stored
                             \/ /\ e.name \in Playlists /\ 1 <= a /\ a <= b /\ b <= Len(l)
                                /\ g.stored = [e.stored EXCEPT ![e.name] = RemoveRange(l, a, b)]
<1> DEFINE a == RangeStart(e)
           b == RangeEnd(e)
<1>1. EditPlain(e) /\ e.next = NoPlaylist
  BY DEF EditSafe
<1>2. a \in Int /\ b \in Int
  BY <1>1, SelectionMeans
<1>3. CASE a > b
  BY <1>3 DEF EditDelete
<1>4. CASE a <= b
  <2>1. PICK f \in EditConnection(e) :
            \/ ~f.conn /\ g = f
            \/ \E h \in {EditDisconnect(f), Removes(f, a, b)} :
                  g = [EditSetCursor(h, a) EXCEPT !.strayed = TRUE]
    BY <1>2, <1>4 DEF EditDelete
  <2>2. /\ EditSafe(f) /\ SameStore(f, e)
        /\ ~e.news => f \in {e, EditDisconnect(e), [e EXCEPT !.idle = FALSE, !.news = FALSE]}
    BY <1>1, ConnectionTaken, Zenon
  <2>3. e.name \in Playlists
    BY <1>1, <1>4, SelectionMeans
  <2>4. CASE ~f.conn /\ g = f
    BY <2>2, <2>4 DEF SameStore
  <2>5. CASE \E h \in {EditDisconnect(f), Removes(f, a, b)} :
               g = [EditSetCursor(h, a) EXCEPT !.strayed = TRUE]
    <3>1. PICK h \in {EditDisconnect(f), Removes(f, a, b)} :
                 g = [EditSetCursor(h, a) EXCEPT !.strayed = TRUE]
      BY <2>5
    <3>2. EditPlain(f) /\ f.next = NoPlaylist /\ f.name = e.name /\ f.stored = e.stored
      BY <2>2 DEF EditSafe, SameStore
    <3> HIDE DEF a, b
    <3>3. /\ EditSafe(h)
          /\ \/ h.stored = e.stored
             \/ /\ 1 <= a /\ b <= Len(e.stored[e.name])
                /\ h.stored = [e.stored EXCEPT ![e.name] = RemoveRange(e.stored[e.name], a, b)]
      <4>1. CASE h = EditDisconnect(f)
        <5>1. EditSettled(h) /\ SameStore(h, f)
          BY <3>2, <4>1, Disconnected, Zenon
        <5> QED
          BY <3>2, <5>1, SettledIsSafe DEF SameStore
      <4>2. CASE h = Removes(f, a, b)
        <5> HIDE DEF a, b
        <5> QED
          BY <1>2, <1>4, <2>2, <2>3, <3>2, <4>2, RemovingIsSafe
      <4> QED
        BY <3>1, <4>1, <4>2
    <3>4. EditSafe(g) /\ g.stored = h.stored
      BY <3>1, <3>3, CursorIsSafe
    <3> QED
      BY <1>4, <2>3, <3>3, <3>4 DEF a, b
  <2> QED
    BY <2>1, <2>4, <2>5
<1> QED
  BY <1>2, <1>3, <1>4

\* A move in the stored playlist, after which the selection follows.
LEMMA MovingIsSafe ==
    ASSUME NEW f, EditSafe(f), f.name \in Playlists, NEW from \in Int, NEW to \in Int, NEW d \in Int
    PROVE  LET l == f.stored[f.name]
               g == Steps(Stores(f, Moved(l, from, to)), d)
           IN  /\ EditSafe(g) /\ g.name = f.name
               /\ g.stored = [f.stored EXCEPT ![f.name] = Moved(l, from, to)]
               /\ g.length = f.length /\ g.cursor = f.cursor + d /\ g.range = f.range
               /\ g.base = IF f.range THEN f.base + d ELSE f.base
<1> DEFINE l == f.stored[f.name]
           m == Moved(l, from, to)
           h == Stores(f, m)
           g == Steps(h, d)
<1>1. EditPlain(f) /\ f.next = NoPlaylist /\ l \in Seq(EditSongs)
  BY DEF EditSafe, EditPlain, Editors
<1>2. m \in Seq(EditSongs)
  BY <1>1, ItemMoved
<1> HIDE DEF m
<1>3. /\ EditSafe(h) /\ h.news = TRUE /\ h.name = f.name /\ h.stored = [f.stored EXCEPT ![f.name] = m]
      /\ h.length = f.length /\ h.cursor = f.cursor /\ h.range = f.range /\ h.base = f.base
  BY <1>1, <1>2, StoringIsSafe
<1> HIDE DEF h
<1>4. /\ EditSafe(g) /\ SameStore(g, h) /\ g.length = h.length /\ g.cursor = h.cursor + d
      /\ g.range = h.range /\ g.base = IF h.range THEN h.base + d ELSE h.base
  BY <1>3, SteppingIsSafe
<1> HIDE DEF g
<1> QED
  BY <1>3, <1>4 DEF SameStore, g, h, m

\* The page after the connection was taken for a move, and the selection saved
LEMMA MoveStarts ==
    ASSUME EditorAssumption, NEW e, EditSafe(e), e.name \in Playlists, NEW f \in EditConnection(e)
    PROVE  LET s == SaveSelection(f)
           IN  /\ EditSafe(f) /\ f.stored = e.stored
               /\ EditSafe(s) /\ s.name = e.name /\ s.stored = e.stored
               /\ EditSafe(EditDisconnect(s)) /\ EditDisconnect(s).stored = e.stored
               /\ ~e.news /\ f.conn => /\ s.length = e.length /\ s.cursor = e.cursor
                                       /\ s.range = e.range /\ s.base = e.base
<1> DEFINE s == SaveSelection(f)
           left == [e EXCEPT !.idle = FALSE, !.news = FALSE]
<1>1. EditPlain(e) /\ e.next = NoPlaylist
  BY DEF EditSafe
<1>2. /\ EditSafe(f) /\ SameStore(f, e)
      /\ ~e.news => f \in {e, EditDisconnect(e), left}
  BY <1>1, ConnectionTaken, Zenon
<1>3. EditSafe(s) /\ SameStore(s, f)
  BY <1>2, SavingIsSafe
<1>4. EditPlain(s) /\ s.next = NoPlaylist
  BY <1>3 DEF EditSafe
<1> HIDE DEF s
<1>5. EditSettled(EditDisconnect(s)) /\ SameStore(EditDisconnect(s), s)
  BY <1>4, Disconnected, Zenon
<1>6. f \in Editors /\ f.length = Len(f.list) /\ e \in Editors
  BY <1>1, <1>2 DEF EditSafe, EditPlain
<1>7. s.length = f.length /\ s.cursor = f.cursor /\ s.range = f.range /\ s.base = f.base
  BY <1>6, SelectionSaved DEF s
<1>8. ASSUME ~e.news, f.conn
      PROVE  f.length = e.length /\ f.cursor = e.cursor /\ f.range = e.range /\ f.base = e.base
  <2>1. EditDisconnect(e).conn = FALSE
    BY <1>1, Disconnected, Zenon
  <2>2. f \in {e, left}
    BY <1>2, <1>8, <2>1
  <2>3. left.length = e.length /\ left.cursor = e.cursor /\ left.range = e.range /\ left.base = e.base
    BY <1>6 DEF Editors
  <2> HIDE DEF left
  <2> QED
    BY <2>2, <2>3
<1> HIDE DEF left
<1> QED
  BY <1>2, <1>3, <1>5, <1>7, <1>8, SettledIsSafe DEF SameStore, s

\* What HandleMoveUp() and HandleMoveDown() leave: a range of songs, moved by d with the selection
RangeMovedTo(e, g, from, to, d) ==
    LET l == e.stored[e.name]
    IN  /\ e.name \in Playlists /\ RangeStart(e) <= RangeEnd(e)
        /\ g.stored = [e.stored EXCEPT ![e.name] = Moved(l, from, to)]
        /\ g.length = e.length /\ g.cursor = e.cursor + d /\ g.range = e.range
        /\ g.base = IF e.range THEN e.base + d ELSE e.base

LEMMA MoveUpIsSafe ==
    ASSUME EditorAssumption, NEW e, EditSafe(e), NEW g \in EditMoveUp(e)
    PROVE  /\ EditSafe(g)
           /\ ~e.news => \/ g.stored = e.stored
                         \/ /\ RangeEnd(e) <= Len(e.stored[e.name])
                            /\ RangeMovedTo(e, g, RangeStart(e) - 1, RangeEnd(e), 0 - 1)
<1> DEFINE a == RangeStart(e)
           b == RangeEnd(e)
           l == e.stored[e.name]
<1>1. EditPlain(e)
  BY DEF EditSafe
<1>2. a \in Int /\ b \in Int
  BY <1>1, SelectionMeans
<1>3. CASE a = 1 \/ a > b
  BY <1>3 DEF EditMoveUp
<1>4. CASE ~(a = 1 \/ a > b)
  <2>1. e.name \in Playlists /\ a <= b
    BY <1>1, <1>2, <1>4, SelectionMeans
  <2>2. PICK f \in EditConnection(e) :
           LET s == SaveSelection(f)
               m == Moved(s.stored[s.name], a - 1, b)
           IN  \/ ~f.conn /\ g = f
               \/ f.conn /\ g \in {s, EditDisconnect(s)}
               \/ f.conn /\ b <= Len(s.stored[s.name]) /\ g = Steps(Stores(s, m), -1)
    BY <1>4 DEF EditMoveUp
  <2> DEFINE s == SaveSelection(f)
             m == Moved(s.stored[s.name], a - 1, b)
  <2>3. /\ EditSafe(f) /\ f.stored = e.stored
        /\ EditSafe(s) /\ s.name = e.name /\ s.stored = e.stored
        /\ EditSafe(EditDisconnect(s)) /\ EditDisconnect(s).stored = e.stored
        /\ ~e.news /\ f.conn => /\ s.length = e.length /\ s.cursor = e.cursor
                                /\ s.range = e.range /\ s.base = e.base
    BY <2>1, MoveStarts, Zenon
  <2>4. CASE ~f.conn /\ g = f
    BY <2>3, <2>4
  <2>5. CASE f.conn /\ g \in {s, EditDisconnect(s)}
    BY <2>3, <2>5
  <2>6. CASE f.conn /\ b <= Len(s.stored[s.name]) /\ g = Steps(Stores(s, m), -1)
    <3> DEFINE d == -1
    <3>0. g = Steps(Stores(s, m), d) /\ d = 0 - 1
      BY <2>6
    <3>1. a - 1 \in Int /\ d \in Int
      BY <1>2
    <3> HIDE DEF a, b, s, d
    <3>2. /\ EditSafe(g)
          /\ g.stored = [s.stored EXCEPT ![s.name] = m]
          /\ g.length = s.length /\ g.cursor = s.cursor + d /\ g.range = s.range
          /\ g.base = IF s.range THEN s.base + d ELSE s.base
      BY <1>2, <2>1, <2>3, <3>0, <3>1, MovingIsSafe
    <3>3. ~e.news => b <= Len(l) /\ RangeMovedTo(e, g, a - 1, b, d)
      BY <2>1, <2>3, <2>6, <3>2 DEF RangeMovedTo, a, b
    <3> QED
      BY <3>0, <3>2, <3>3 DEF a, b
  <2> QED
    BY <2>2, <2>4, <2>5, <2>6
<1> QED
  BY <1>3, <1>4

LEMMA MoveDownIsSafe ==
    ASSUME EditorAssumption, NEW e, EditSafe(e), NEW g \in EditMoveDown(e)
    PROVE  /\ EditSafe(g)
           /\ ~e.news => \/ g.stored = e.stored
                         \/ /\ RangeEnd(e) + 1 <= Len(e.stored[e.name])
                            /\ RangeMovedTo(e, g, RangeEnd(e) + 1, RangeStart(e), 1)
<1> DEFINE a == RangeStart(e)
           b == RangeEnd(e)
           l == e.stored[e.name]
<1>1. EditPlain(e) /\ e.length \in Nat
  BY DEF EditSafe, EditPlain, Editors
<1>2. a \in Int /\ b \in Int
  BY <1>1, SelectionMeans
<1>3. CASE b >= e.length
  BY <1>3 DEF EditMoveDown
<1>4. CASE ~(b >= e.length)
  <2>1. e.name \in Playlists
    BY <1>1, <1>2, <1>4, SelectionMeans
  <2>2. PICK f \in EditConnection(e) :
           LET s == SaveSelection(f)
               m == Moved(s.stored[s.name], b + 1, a)
           IN  \/ ~f.conn /\ g = f
               \/ f.conn /\ g \in {s, EditDisconnect(s)}
               \/ f.conn /\ a <= b /\ b + 1 <= Len(s.stored[s.name]) /\ g = Steps(Stores(s, m), 1)
    BY <1>4 DEF EditMoveDown
  <2> DEFINE s == SaveSelection(f)
             m == Moved(s.stored[s.name], b + 1, a)
  <2>3. /\ EditSafe(f) /\ f.stored = e.stored
        /\ EditSafe(s) /\ s.name = e.name /\ s.stored = e.stored
        /\ EditSafe(EditDisconnect(s)) /\ EditDisconnect(s).stored = e.stored
        /\ ~e.news /\ f.conn => /\ s.length = e.length /\ s.cursor = e.cursor
                                /\ s.range = e.range /\ s.base = e.base
    BY <2>1, MoveStarts, Zenon
  <2>4. CASE ~f.conn /\ g = f
    BY <2>3, <2>4
  <2>5. CASE f.conn /\ g \in {s, EditDisconnect(s)}
    BY <2>3, <2>5
  <2>6. CASE f.conn /\ a <= b /\ b + 1 <= Len(s.stored[s.name]) /\ g = Steps(Stores(s, m), 1)
    <3> HIDE DEF a, b, s
    <3>1. b + 1 \in Int /\ 1 \in Int
      BY <1>2
    <3>2. /\ EditSafe(g)
          /\ g.stored = [s.stored EXCEPT ![s.name] = m]
          /\ g.length = s.length /\ g.cursor = s.cursor + 1 /\ g.range = s.range
          /\ g.base = IF s.range THEN s.base + 1 ELSE s.base
      BY <1>2, <2>1, <2>3, <2>6, <3>1, MovingIsSafe
    <3>3. ~e.news => b + 1 <= Len(l) /\ RangeMovedTo(e, g, b + 1, a, 1)
      BY <2>1, <2>3, <2>6, <3>2 DEF RangeMovedTo, a, b
    <3> QED
      BY <3>2, <3>3 DEF a, b
  <2> QED
    BY <2>2, <2>4, <2>5, <2>6
<1> QED
  BY <1>3, <1>4

\* After a move the selection is where the songs are.
LEMMA SelectionGoesAlong ==
    ASSUME NEW e, EditPlain(e), NEW g, NEW from \in Int, NEW to \in Int, NEW d \in Int,
           RangeMovedTo(e, g, from, to, d), g.stored[e.name] # e.stored[e.name],
           \/ d = 0 - 1 /\ from = RangeStart(e) - 1 /\ to = RangeEnd(e) /\ RangeEnd(e) <= Len(e.stored[e.name])
           \/ d = 1 /\ from = RangeEnd(e) + 1 /\ to = RangeStart(e) /\ RangeEnd(e) + 1 <= Len(e.stored[e.name])
    PROVE  /\ RangeStart(g) = RangeStart(e) + d /\ RangeEnd(g) = RangeEnd(e) + d
           /\ SubSeq(g.stored[e.name], RangeStart(g), RangeEnd(g))
                 = SubSeq(e.stored[e.name], RangeStart(e), RangeEnd(e))
<1> DEFINE a == RangeStart(e)
           b == RangeEnd(e)
           l == e.stored[e.name]
           m == Moved(l, from, to)
<1>1. /\ a \in Int /\ b \in Int /\ a <= b /\ l \in Seq(EditSongs) /\ e.length > 0 /\ e.cursor >= 1
      /\ e.name \in Playlists
  BY SelectionMeans DEF RangeMovedTo
<1>2. g.stored[e.name] = m
  <2>1. e.stored \in [Playlists -> Seq(EditSongs)]
    BY DEF EditPlain, Editors
  <2> QED
    BY <1>1, <2>1 DEF RangeMovedTo
<1>3. from \in DOMAIN l /\ to \in DOMAIN l
  BY <1>1, <1>2, ItemMoved
<1>4. DOMAIN l = 1..Len(l) /\ Len(l) \in Nat
  BY <1>1, LenProperties
<1>5. e.cursor \in Int /\ e.base \in Int /\ e.range \in BOOLEAN /\ e.length \in Nat
  BY DEF EditPlain, Editors
<1>6. e.cursor + d >= 1
  <2>1. CASE d = 1
    BY <1>1, <1>5, <2>1
  <2>2. CASE d = 0 - 1
    <3>1. a >= 2
      BY <1>1, <1>3, <1>4, <2>2
    <3>2. e.cursor >= a
      BY <1>1, <1>5 DEF RangeStart, Nothing
    <3> QED
      BY <1>1, <1>5, <2>2, <3>1, <3>2
  <2> QED
    BY <2>1, <2>2
<1>7. d \in Int
  OBVIOUS
<1>8. /\ g.length = e.length /\ g.cursor = e.cursor + d /\ g.range = e.range
      /\ g.base = IF e.range THEN e.base + d ELSE e.base
  BY DEF RangeMovedTo
<1>9. ~Nothing(g) /\ ~Nothing(e)
  <2>1. e.length # 0 /\ ~(e.cursor < 1)
    <3>1. e.length > 0 /\ e.cursor >= 1
      BY <1>1
    <3> QED
      BY ONLY <1>5, <3>1
  <2>2. e.cursor + d \in Int /\ ~(e.cursor + d < 1)
    BY <1>5, <1>6, <1>7
  <2>3. g.length # 0 /\ ~(g.cursor < 1)
    BY <1>8, <2>1, <2>2
  <2> QED
    BY <2>1, <2>3 DEF Nothing
<1>10. RangeStart(g) = a + d /\ RangeEnd(g) = b + d
  BY <1>5, <1>7, <1>8, <1>9 DEF RangeStart, RangeEnd
<1>11. SubSeq(m, a + d, b + d) = SubSeq(l, a, b)
  <2> HIDE DEF a, b, l
  <2>1. CASE d = 0 - 1 /\ from = a - 1 /\ to = b /\ b <= Len(l)
    <3>1. a >= 2
      BY <1>1, <1>3, <1>4, <2>1
    <3>2. a + d = a - 1 /\ b + d = b - 1
      BY <1>1, <2>1
    <3> QED
      BY <1>1, <2>1, <3>1, <3>2, SelectionMoved
  <2>2. CASE d = 1 /\ from = b + 1 /\ to = a /\ b + 1 <= Len(l)
    <3>1. a >= 1
      BY <1>1, <1>3, <1>4, <2>2
    <3>2. a + d = a + 1 /\ b + d = b + 1
      BY <1>1, <2>2
    <3> QED
      BY <1>1, <2>2, <3>1, <3>2, SelectionMoved
  <2> QED
    BY <2>1, <2>2 DEF a, b, l
<1> QED
  BY <1>2, <1>10, <1>11

\* A click: the cursor is on its item already.
LEMMA ClickIsSafe ==
    ASSUME EditorAssumption, EditSafe(editor), EditClick
    PROVE  EditSafe(editor')
<1> DEFINE e == EditSetCursor(editor, editor.cursor)
<1>1. EditPlain(editor) /\ editor \in Editors /\ editor.length > 0 /\ editor.next = NoPlaylist
  BY DEF EditSafe, EditPlain, EditClick
<1>2. /\ e \in Editors
      /\ SameStore(e, editor) /\ e.list = editor.list /\ e.length = editor.length
      /\ e.next = editor.next /\ e.conn = editor.conn /\ e.pending = editor.pending
      /\ e.events = editor.events /\ e.news = editor.news
  BY <1>1, CursorSet
<1>3. /\ e.cursor = Valid(editor.cursor, editor.length)
      /\ e.selected = editor.selected /\ e.strayed = editor.strayed
  BY <1>1 DEF EditSetCursor, Editors
<1>4. OnSelected(editor) => OnSelected(e)
  <2>1. editor.cursor \in DOMAIN editor.list => e.cursor = editor.cursor
    <3>1. DOMAIN editor.list = 1..editor.length
      BY <1>1, LenProperties DEF EditPlain, Editors
    <3> QED
      BY <1>3, <3>1 DEF Valid
  <2> HIDE DEF e
  <2> QED
    BY <1>2, <1>3, <2>1 DEF OnSelected
<1>5. PICK f \in EditConnection(e) :
         editor' \in {SaveSelection(f), SaveSelection(EditDisconnect(f)),
                      SaveSelection(Removes(f, f.cursor, f.cursor))}
  BY DEF EditClick
<1> HIDE DEF e
<1>6. EditSafe(e)
  BY <1>2, <1>4 DEF EditSafe, EditPlain, ListRight, SameStore
<1>7. EditPlain(e) /\ e.next = NoPlaylist
  BY <1>6 DEF EditSafe
<1>8. EditSafe(f) /\ SameStore(f, e)
  BY <1>6, <1>7, ConnectionTaken, Zenon
<1>9. EditPlain(f) /\ f.next = NoPlaylist /\ f.cursor \in Int
  BY <1>8 DEF EditSafe, EditPlain, Editors
<1>10. EditSafe(EditDisconnect(f))
  BY <1>9, Disconnected, SettledIsSafe, Zenon
<1>11. f.name \in Playlists
  <2>1. editor.name # NoPlaylist
    BY <1>1 DEF EditPlain, Editors
  <2> QED
    BY <1>2, <1>8, <1>9, <2>1 DEF SameStore, EditPlain, Editors
<1>12. EditSafe(Removes(f, f.cursor, f.cursor))
  <2>1. f.cursor <= f.cursor
    BY <1>9
  <2> QED
    BY <1>8, <1>9, <1>11, <2>1, RemovingIsSafe
<1> QED
  BY <1>5, <1>8, <1>10, <1>12, SavingIsSafe

-----------------------------------------------------------------------------
(* The promises *)

LEMMA EditorStarts ==
    ASSUME EditorAssumption, EditorInit
    PROVE  EditSafe(editor)
<1>1. PICK stored \in {f \in [Playlists -> UNION {EditContents[p] : p \in Playlists}] :
                         \A p \in Playlists : f[p] \in EditContents[p]} :
        editor = [name |-> NoPlaylist, next |-> NoPlaylist, list |-> <<>>, length |-> 0,
                  cursor |-> 1, base |-> 1, range |-> FALSE, selected |-> NoEditSong,
                  open |-> FALSE, pending |-> TRUE, conn |-> FALSE, idle |-> FALSE,
                  events |-> FALSE, news |-> FALSE, stored |-> stored, strayed |-> FALSE]
  BY DEF EditorInit
<1>2. stored \in [Playlists -> Seq(EditSongs)]
  <2>1. \A p \in Playlists : stored[p] \in Seq(EditSongs)
    BY <1>1 DEF EditorAssumption
  <2> QED
    BY <1>1, <2>1
<1> DEFINE l == <<>>
           one == 1
<1>3. l \in Seq(EditSongs) /\ Len(l) = 0 /\ one \in Int /\ 0 \in Nat
  OBVIOUS
<1>4. /\ editor.list = l /\ editor.length = 0 /\ editor.name = NoPlaylist /\ editor.next = NoPlaylist
      /\ editor.conn = FALSE
  BY <1>1
<1>5. editor = [name |-> NoPlaylist, next |-> NoPlaylist, list |-> l, length |-> 0,
                cursor |-> one, base |-> one, range |-> FALSE, selected |-> NoEditSong,
                open |-> FALSE, pending |-> TRUE, conn |-> FALSE, idle |-> FALSE,
                events |-> FALSE, news |-> FALSE, stored |-> stored, strayed |-> FALSE]
  BY <1>1
<1> HIDE DEF l, one
<1>6. editor \in Editors
  BY <1>2, <1>3, <1>5 DEF Editors
<1> QED
  BY <1>3, <1>4, <1>6 DEF EditSafe, EditPlain, l

\* What DeletesSelected and CursorFollowsMove say of an edit
DeleteRight(e, f) ==
    LET s == IF e.name = NoPlaylist THEN <<>> ELSE e.stored[e.name]
        t == IF f.name = NoPlaylist THEN <<>> ELSE f.stored[f.name]
    IN  e.conn /\ ~(e.pending \/ e.events \/ e.news) /\ Len(t) < Len(s) /\ f.name = e.name =>
          /\ SubSeq(t, 1, RangeStart(e) - 1) = SubSeq(s, 1, RangeStart(e) - 1)
          /\ SubSeq(t, RangeStart(e), Len(t)) = SubSeq(s, RangeEnd(e) + 1, Len(s))

MoveRight(e, f) ==
    LET s == IF e.name = NoPlaylist THEN <<>> ELSE e.stored[e.name]
        t == IF f.name = NoPlaylist THEN <<>> ELSE f.stored[f.name]
    IN  e.conn /\ ~(e.pending \/ e.events \/ e.news) /\ t # s /\ Len(t) = Len(s) /\ f.name = e.name =>
          SubSeq(t, RangeStart(f), RangeEnd(f)) = SubSeq(s, RangeStart(e), RangeEnd(e))

LEMMA EditIsRight ==
    ASSUME EditorAssumption, NEW e, EditSafe(e),
           NEW g \in EditDelete(e) \cup EditMoveUp(e) \cup EditMoveDown(e)
    PROVE  EditSafe(g) /\ DeleteRight(e, g) /\ MoveRight(e, g)
<1> DEFINE a == RangeStart(e)
           b == RangeEnd(e)
           s == e.stored[e.name]
           t == g.stored[e.name]
<1>1. EditPlain(e) /\ e.stored \in [Playlists -> Seq(EditSongs)]
  BY DEF EditSafe, EditPlain, Editors
<1>2. a \in Int /\ b \in Int
  BY <1>1, SelectionMeans
<1>3. NoPlaylist \notin Playlists
  BY DEF EditorAssumption
<1>4. CASE g.stored = e.stored
  <2>1. EditSafe(g)
    BY DeleteIsSafe, MoveUpIsSafe, MoveDownIsSafe, Zenon
  <2>2. DeleteRight(e, g)
    <3>1. CASE e.name = NoPlaylist
      BY <1>4, <3>1 DEF DeleteRight
    <3>2. CASE e.name # NoPlaylist
      <4>1. e.name \in Playlists
        BY <1>1, <3>2 DEF EditPlain, Editors
      <4>2. Len(s) \in Nat
        BY <1>1, <4>1, LenProperties
      <4> QED
        BY <1>4, <3>2, <4>2 DEF DeleteRight
    <3> QED
      BY <3>1, <3>2
  <2>3. MoveRight(e, g)
    BY <1>4 DEF MoveRight
  <2> QED
    BY <2>1, <2>2, <2>3
<1>5. CASE e.news
  <2>1. EditSafe(g)
    BY DeleteIsSafe, MoveUpIsSafe, MoveDownIsSafe, Zenon
  <2> QED
    BY <1>5, <2>1 DEF DeleteRight, MoveRight
<1>6. CASE g.stored # e.stored /\ ~e.news /\ g \in EditDelete(e)
  <2>1. /\ EditSafe(g) /\ e.name \in Playlists /\ 1 <= a /\ a <= b /\ b <= Len(s)
        /\ g.stored = [e.stored EXCEPT ![e.name] = RemoveRange(s, a, b)]
    BY <1>6, DeleteIsSafe
  <2>2. t = RemoveRange(s, a, b) /\ s \in Seq(EditSongs)
    BY <1>1, <2>1
  <2> HIDE DEF a, b, s, t
  <2>3. /\ Len(t) = Len(s) - (b - a + 1) /\ Len(s) \in Nat
        /\ SubSeq(t, 1, a - 1) = SubSeq(s, 1, a - 1)
        /\ SubSeq(t, a, Len(t)) = SubSeq(s, b + 1, Len(s))
    <3>1. 1 <= a /\ a <= b /\ b <= Len(s)
      BY <2>1
    <3>2. LET r == RemoveRange(s, a, b)
          IN  /\ Len(r) = Len(s) - (b - a + 1)
              /\ SubSeq(r, 1, a - 1) = SubSeq(s, 1, a - 1)
              /\ SubSeq(r, a, Len(r)) = SubSeq(s, b + 1, Len(s))
      BY ONLY <1>2, <2>2, <3>1, RangeRemoved
    <3> QED
      BY <2>2, <3>2, LenProperties
  <2>4. Len(t) # Len(s)
    BY <1>2, <2>1, <2>3
  <2>5. e.name # NoPlaylist
    BY <1>3, <2>1
  <2> QED
    BY <2>1, <2>3, <2>4, <2>5 DEF DeleteRight, MoveRight, a, b, s, t
<1>7. CASE g.stored # e.stored /\ ~e.news /\ g \in EditMoveUp(e) \cup EditMoveDown(e)
  <2>1. EditSafe(g)
    BY <1>7, MoveUpIsSafe, MoveDownIsSafe, Zenon
  <2>2. PICK from \in Int, to \in Int, d \in Int :
           /\ RangeMovedTo(e, g, from, to, d)
           /\ \/ d = 0 - 1 /\ from = a - 1 /\ to = b /\ b <= Len(s)
              \/ d = 1 /\ from = b + 1 /\ to = a /\ b + 1 <= Len(s)
    <3>1. CASE g \in EditMoveUp(e)
      <4>1. b <= Len(s) /\ RangeMovedTo(e, g, a - 1, b, 0 - 1)
        BY <1>7, <3>1, MoveUpIsSafe
      <4> QED
        BY <1>2, <4>1, a - 1 \in Int, 0 - 1 \in Int
    <3>2. CASE g \in EditMoveDown(e)
      <4>1. b + 1 <= Len(s) /\ RangeMovedTo(e, g, b + 1, a, 1)
        BY <1>7, <3>2, MoveDownIsSafe
      <4> QED
        BY <1>2, <4>1
    <3> QED
      BY <1>7, <3>1, <3>2
  <2>3. e.name \in Playlists /\ e.name # NoPlaylist
    BY <1>3, <2>2 DEF RangeMovedTo
  <2>4. t = Moved(s, from, to) /\ s \in Seq(EditSongs)
    BY <1>1, <2>2, <2>3 DEF RangeMovedTo
  <2>5. Len(t) = Len(s) /\ Len(s) \in Nat
    BY <2>4, ItemMoved, LenProperties
  <2>6. DeleteRight(e, g)
    BY <2>3, <2>5 DEF DeleteRight
  <2>7. MoveRight(e, g)
    <3>1. t # s => SubSeq(t, RangeStart(g), RangeEnd(g)) = SubSeq(s, a, b)
      BY <1>1, <2>2, SelectionGoesAlong
    <3> QED
      BY <2>3, <3>1 DEF MoveRight
  <2> QED
    BY <2>1, <2>6, <2>7
<1> QED
  BY <1>4, <1>5, <1>6, <1>7

\* Steps of MPD, the event loop and the other pages
LEMMA AroundIsSafe ==
    ASSUME EditorAssumption, EditSafe(editor),
           \/ EditServerChange \/ EditConnected \/ EditIdle \/ EditEnterIdle \/ EditUpdateTimer
           \/ EditUpdateScreen \/ EditPlaylist \/ ShowEditor \/ HideEditor
    PROVE  EditSafe(editor')
<1> DEFINE e == editor
<1>1. EditPlain(e) /\ e.next = NoPlaylist /\ e \in Editors
  BY DEF EditSafe, EditPlain
<1>2. CASE EditServerChange
  <2>0. PICK p \in Playlists, l \in UNION {EditContents[q] : q \in Playlists} :
           l \in EditContents[p] /\ editor' = [editor EXCEPT !.stored[p] = l, !.news = TRUE]
    BY <1>2, Zenon DEF EditServerChange
  <2>1. l \in Seq(EditSongs)
    BY <2>0 DEF EditorAssumption
  <2> DEFINE x == [e.stored EXCEPT ![p] = l]
             f == [e EXCEPT !.stored = x, !.news = TRUE]
  <2>2. x \in [Playlists -> Seq(EditSongs)]
    <3>1. e.stored \in [Playlists -> Seq(EditSongs)]
      BY <1>1 DEF Editors
    <3> QED
      BY <2>1, <3>1
  <2>3. editor' = f
    BY <2>0
  <2> HIDE DEF x
  <2>4. /\ f \in Editors /\ f.news = TRUE /\ f.name = e.name /\ f.list = e.list
        /\ f.length = e.length /\ f.next = e.next
    BY <1>1, <2>2 DEF Editors
  <2> HIDE DEF f
  <2> QED
    BY <1>1, <2>3, <2>4 DEF EditSafe, EditPlain
<1>3. CASE EditConnected
  <2> DEFINE f == [e EXCEPT !.conn = TRUE, !.events = TRUE, !.news = FALSE]
  <2>1. editor' \in EditScreen(f)
    BY <1>3 DEF EditConnected
  <2>2. /\ f \in Editors /\ f.events = TRUE /\ f.name = e.name /\ f.list = e.list
        /\ f.length = e.length /\ f.next = e.next
    BY <1>1 DEF Editors
  <2> HIDE DEF f
  <2>3. EditSafe(f)
    BY <1>1, <2>2 DEF EditSafe, EditPlain
  <2> QED
    BY <2>1, <2>3, ScreenUpdated
<1>4. CASE EditIdle
  <2>1. editor' \in EditConnection(editor)
    BY <1>4 DEF EditIdle
  <2> QED
    BY <1>1, <2>1, ConnectionTaken, Zenon
<1>5. ASSUME NEW o \in BOOLEAN, NEW i \in BOOLEAN, editor' = [editor EXCEPT !.open = o, !.idle = i]
      PROVE  EditSafe(editor')
  <2> DEFINE f == [e EXCEPT !.open = o, !.idle = i]
  <2>1. /\ f \in Editors /\ f.name = e.name /\ f.list = e.list /\ f.stored = e.stored
        /\ f.length = e.length /\ f.next = e.next /\ f.conn = e.conn /\ f.pending = e.pending
        /\ f.events = e.events /\ f.news = e.news /\ f.cursor = e.cursor
        /\ f.selected = e.selected /\ f.strayed = e.strayed
    BY <1>1 DEF Editors
  <2>2. editor' = f
    BY <1>5
  <2> HIDE DEF f
  <2> QED
    BY <2>1, <2>2 DEF EditSafe, EditPlain, ListRight, OnSelected
<1>9. e.open \in BOOLEAN /\ e.idle \in BOOLEAN
  BY <1>1 DEF Editors
<1>10. CASE EditEnterIdle
  <2>1. editor' = [editor EXCEPT !.open = e.open, !.idle = TRUE]
    BY <1>1, <1>10 DEF EditEnterIdle, Editors
  <2> QED
    BY <1>5, <1>9, <2>1, Zenon
<1>11. CASE HideEditor
  <2>1. editor' = [editor EXCEPT !.open = FALSE, !.idle = e.idle]
    BY <1>1, <1>11 DEF HideEditor, Editors
  <2> QED
    BY <1>5, <1>9, <2>1, Zenon
<1>6. CASE EditUpdateTimer
  <2>1. PICK f \in EditConnection(editor) : editor' \in EditScreen(f)
    BY <1>6 DEF EditUpdateTimer
  <2>2. EditSafe(f)
    BY <1>1, ConnectionTaken, Zenon
  <2> QED
    BY <2>1, <2>2, ScreenUpdated
<1>7. CASE EditUpdateScreen
  BY <1>7, ScreenUpdated DEF EditUpdateScreen
<1>8. ASSUME NEW p \in Playlists \cup {NoPlaylist},
             editor' \in EditUpdate([editor EXCEPT !.next = p, !.open = TRUE], Reloaded)
      PROVE  EditSafe(editor')
  <2> DEFINE f == [e EXCEPT !.next = p, !.open = TRUE]
  <2>1. editor' \in EditUpdate(f, Reloaded)
    BY <1>8
  <2>2. /\ f \in Editors /\ f.name = e.name /\ f.list = e.list /\ f.stored = e.stored
        /\ f.length = e.length /\ f.open = TRUE /\ f.conn = e.conn /\ f.pending = e.pending
        /\ f.events = e.events /\ f.news = e.news /\ f.cursor = e.cursor
        /\ f.selected = e.selected /\ f.strayed = e.strayed
    BY <1>1 DEF Editors
  <2> HIDE DEF f
  <2>3. /\ EditPlain(f)
        /\ f.conn /\ ~f.pending /\ ~f.events /\ ~f.news => ListRight(f) /\ OnSelected(f)
    BY <2>2 DEF EditSafe, EditPlain, ListRight, OnSelected
  <2> QED
    BY <2>1, <2>2, <2>3, ReloadedUpdate, Zenon
<1>12. CASE EditPlaylist
  <2>1. PICK p \in Playlists :
           editor' \in EditUpdate([editor EXCEPT !.next = p, !.open = TRUE], Reloaded)
    BY <1>12, Zenon DEF EditPlaylist
  <2> QED
    BY <1>8, <2>1, Zenon
<1>13. CASE ShowEditor
  <2>1. [editor EXCEPT !.open = TRUE] = [editor EXCEPT !.next = NoPlaylist, !.open = TRUE]
    BY <1>1 DEF Editors
  <2>2. editor' \in EditUpdate([editor EXCEPT !.next = NoPlaylist, !.open = TRUE], Reloaded)
    BY <1>13, <2>1, Zenon DEF ShowEditor
  <2> QED
    BY <1>8, <2>2, Zenon
<1> QED
  BY <1>2, <1>3, <1>4, <1>6, <1>7, <1>10, <1>11, <1>12, <1>13

\* Steps of the cursor
LEMMA CursorStepIsSafe ==
    ASSUME EditorAssumption, EditSafe(editor), EditMove \/ EditRange \/ EditFind
    PROVE  EditSafe(editor')
<1> DEFINE e == editor
<1>1. EditPlain(e) /\ e.next = NoPlaylist /\ e \in Editors
  BY DEF EditSafe, EditPlain
<1>2. CASE \/ \E i : editor' = [EditSetCursor(editor, i) EXCEPT !.strayed = TRUE]
           \/ \E i : editor' = SaveSelection(EditSetCursor(editor, i))
  BY <1>2, CursorIsSafe
<1>3. ASSUME NEW c \in Int, NEW b \in Int, NEW r \in BOOLEAN,
             editor' = SaveSelection([editor EXCEPT !.cursor = c, !.base = b, !.range = r])
      PROVE  EditSafe(editor')
  <2> DEFINE f == [e EXCEPT !.cursor = c, !.base = b, !.range = r]
  <2>1. /\ f \in Editors /\ f.name = e.name /\ f.list = e.list /\ f.stored = e.stored
        /\ f.length = e.length /\ f.next = e.next /\ f.conn = e.conn /\ f.pending = e.pending
        /\ f.events = e.events /\ f.news = e.news
    BY <1>1 DEF Editors
  <2>2. editor' = SaveSelection(f)
    BY <1>3
  <2> HIDE DEF f
  <2>3. EditListed(f)
    BY <2>1 DEF EditListed, EditSafe, EditPlain, ListRight
  <2> QED
    BY <2>2, <2>3, SavedIsSafe
<1>4. CASE EditMove
  <2> DEFINE b == IF e.range THEN Valid(e.base, e.length) ELSE e.base
  <2>1. PICK i \in 1..editor.length :
           \/ editor' = SaveSelection(EditSetCursor(editor, i))
           \/ editor' = SaveSelection([editor EXCEPT !.cursor = i, !.base = b])
    BY <1>4, Zenon DEF EditMove
  <2>2. b \in Int /\ i \in Int /\ e.range \in BOOLEAN
    BY <1>1, RangeTypes DEF Editors
  <2>3. CASE editor' = SaveSelection(EditSetCursor(editor, i))
    BY <1>2, <2>3
  <2>4. CASE editor' = SaveSelection([editor EXCEPT !.cursor = i, !.base = b])
    <3> HIDE DEF b
    <3>1. [editor EXCEPT !.cursor = i, !.base = b] = [editor EXCEPT !.cursor = i, !.base = b, !.range = e.range]
      BY <1>1 DEF Editors
    <3> QED
      BY <1>3, <2>2, <2>4, <3>1, Zenon
  <2> QED
    BY <2>1, <2>3, <2>4
<1>5. CASE EditRange
  <2>1. CASE editor.range
    BY <1>2, <1>5, <2>1 DEF EditRange
  <2>2. CASE ~editor.range
    <3>1. editor' = SaveSelection([editor EXCEPT !.range = TRUE, !.base = editor.cursor])
      BY <1>5, <2>2 DEF EditRange
    <3>2. [editor EXCEPT !.range = TRUE, !.base = editor.cursor]
             = [editor EXCEPT !.cursor = editor.cursor, !.base = editor.cursor, !.range = TRUE]
      BY <1>1 DEF Editors
    <3>3. editor.cursor \in Int
      BY <1>1 DEF Editors
    <3> QED
      BY <1>3, <3>1, <3>2, <3>3, Zenon
  <2> QED
    BY <2>1, <2>2
<1>6. CASE EditFind
  BY <1>2, <1>6 DEF EditFind
<1> QED
  BY <1>4, <1>5, <1>6

LEMMA EditorStep ==
    ASSUME EditorAssumption, EditSafe(editor), [EditorNext]_editor
    PROVE  /\ EditSafe(editor')
           /\ EditItems => DeleteRight(editor, editor') /\ MoveRight(editor, editor')
<1>1. CASE EditItems
  BY <1>1, EditIsRight DEF EditItems
<1>2. CASE editor' = editor /\ ~EditItems
  BY <1>2
<1>3. CASE EditorNext /\ ~EditItems
  BY <1>3, AroundIsSafe, CursorStepIsSafe, ClickIsSafe DEF EditorNext
<1> QED
  BY <1>1, <1>2, <1>3

LEMMA EditorIsRight == EditSafe(editor) => EditorTypeOK /\ EditorFaithful /\ SelectionFollows
BY DEF EditSafe, EditPlain, ListRight, OnSelected, EditorTypeOK, EditorFaithful, SelectionFollows, UpToDate

\* For any songs and playlists, whoever else changes them and wherever the connection breaks: when
\* nothing is on its way, the editor shows what is stored, with the cursor on the song selected.
\* A command given then deletes nothing but the selection, and moves the selection with its songs;
\* of one that is given while a change is on its way, and so may reload the list before it uses
\* the positions, nothing is said (PlaylistEditPage).
THEOREM EditsAreAsShown == EditorSpec => EditsAsShown
<1>1. EditorInit => EditSafe(editor)
  BY EditorAssumption, EditorStarts
<1>2. EditSafe(editor) /\ [EditorNext]_editor => EditSafe(editor)'
  BY EditorAssumption, EditorStep
<1>3. EditSafe(editor) /\ [EditorNext]_editor =>
         [UpToDate /\ Len(Stored') < Len(Stored) /\ editor'.name = editor.name /\ EditItems =>
            /\ SubSeq(Stored', 1, RangeStart(editor) - 1) = SubSeq(Stored, 1, RangeStart(editor) - 1)
            /\ SubSeq(Stored', RangeStart(editor), Len(Stored'))
                  = SubSeq(Stored, RangeEnd(editor) + 1, Len(Stored))]_editor
  BY EditorAssumption, EditorStep DEF DeleteRight, UpToDate, Stored
<1>4. EditSafe(editor) /\ [EditorNext]_editor =>
         [UpToDate /\ Stored' # Stored /\ Len(Stored') = Len(Stored) /\ editor'.name = editor.name /\ EditItems =>
            SubSeq(Stored', RangeStart(editor'), RangeEnd(editor'))
               = SubSeq(Stored, RangeStart(editor), RangeEnd(editor))]_editor
  BY EditorAssumption, EditorStep DEF MoveRight, UpToDate, Stored
<1> QED
  BY <1>1, <1>2, <1>3, <1>4, EditorIsRight, PTL
     DEF EditorSpec, EditsAsShown, DeletesSelected, CursorFollowsMove
=============================================================================
