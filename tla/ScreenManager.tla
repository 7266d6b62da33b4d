--------------------------- MODULE ScreenManager ---------------------------
(***************************************************************************)
(* The screen manager (screen.cxx, screen_init.cxx) with its pages         *)
(* (Page.hxx, ProxyPage.cxx), the modal dialog (ModalDialog.cxx) and the   *)
(* coroutines of the pages which wait for it (InvokeTask.hxx).             *)
(*                                                                         *)
(* A coroutine is suspended only while its dialog waits for an answer; it  *)
(* is the frame that the dialog, and the task of its owner, point to.      *)
(***************************************************************************)
EXTENDS Naturals

CONSTANTS
    TopPages,       \* the pages the manager knows by name
    Proxy,          \* one of them shows one of ...
    SubPages,       \* ... these pages
    FirstPage,      \* the queue page, which is shown first
    FirstSubPage,   \* the sub-page shown first
    Careful,        \* pages whose OnCommand() begins with CoCancel()
    Frames,         \* memory for coroutines
    NoFrame, NoPage,
    Password,       \* the owner of query_password_task
    Sizes,          \* of the terminal
    Interrupting    \* may a command start a coroutine on a page that has one suspended?

ASSUME ScreenAssumption ==
    /\ {Proxy, FirstPage} \subseteq TopPages /\ FirstSubPage \in SubPages
    /\ TopPages \cap SubPages = {} /\ Careful \subseteq TopPages
    /\ (\E f, g \in Frames : f # g) /\ NoFrame \notin Frames
    /\ NoPage \notin TopPages \cup SubPages \cup {Password} /\ Password \notin TopPages \cup SubPages
    /\ Sizes \subseteq Nat \ {0} /\ Interrupting \in BOOLEAN

VARIABLE screen

ScreenPages == TopPages \cup SubPages
Owners == ScreenPages \cup {Password}

\* A text dialog may be "fragile": an unknown key cancels it and is passed on.
Dialogs == {"text", "fragile", "yesno", "key"}

FreeFrame == [owner |-> NoPage, dialog |-> "none"]
FrameStates == [owner : Owners, dialog : Dialogs] \cup {FreeFrame}

\* One bit stands for the whole mask of events: its bits do not depend on each other.
Screens ==
    [page : TopPages \cup {NoPage},           \* current_page, NoPage after Exit()
     prev : TopPages,                         \* mode_fn_prev
     sub : SubPages \cup {NoPage},            \* ProxyPage::current_page
     made : SUBSET TopPages,                  \* pages
     open : SUBSET ScreenPages,
     pending : SUBSET ScreenPages,            \* pages with pending_events
     missed : SUBSET ScreenPages,             \* pages that do not show what MPD has announced
     window : Sizes,
     size : [ScreenPages -> {0} \cup Sizes],  \* last_size
     laid : BOOLEAN,                          \* ProxyPage::have_size
     updated : BOOLEAN,                       \* ProxyPage::have_update
     modal : Frames \cup {NoFrame},
     task : [Owners -> Frames \cup {NoFrame}],
     frame : [Frames -> FrameStates],
     twice : BOOLEAN]                         \* a coroutine has been destroyed twice

-----------------------------------------------------------------------------
(* Coroutines and the dialog *)

\* final_suspend(): the handle in the task of the owner is released, the frame destroyed.
Finish(s, f) ==
    [s EXCEPT !.task[s.frame[f].owner] = NoFrame, !.frame[f] = FreeFrame]

\* The destructor of a coroutine destroys its dialog, which hides itself.
Destroy(s, f) ==
    [s EXCEPT !.frame[f] = FreeFrame, !.modal = IF @ = f THEN NoFrame ELSE @]

\* CancelModalDialog(): the coroutine goes on with an empty answer, and ends.
CancelModalDialog(s) ==
    IF s.modal = NoFrame THEN s ELSE Finish([s EXCEPT !.modal = NoFrame], s.modal)

ShowModalDialog(s, f) == [CancelModalDialog(s) EXCEPT !.modal = f]

\* Start(): the coroutine runs until its first dialog.
StartTask(s, o, d) ==
    LET f == CHOOSE g \in Frames : s.frame[g] = FreeFrame
    IN  ShowModalDialog([s EXCEPT !.task[o] = f, !.frame[f] = [owner |-> o, dialog |-> d]], f)

CoCancel(s, o) ==
    IF s.task[o] = NoFrame THEN s ELSE Destroy([s EXCEPT !.task[o] = NoFrame], s.task[o])

\* CoStart(): moving the task swaps the handles, so the old coroutine lives on in the
\* parameter until the new one has been started.
CoStart(s, o, d) ==
    LET old == s.task[o]
        new == StartTask(s, o, d)
    IN  IF old = NoFrame THEN new
        ELSE IF new.frame[old] = FreeFrame THEN [new EXCEPT !.twice = TRUE]
        ELSE Destroy(new, old)

\* A coroutine that needs no answer ends at once; the old one is cancelled after that.
CoStartSilently(s, o) == CoCancel(s, o)

-----------------------------------------------------------------------------
(* Pages *)

\* OnClose() cancels the coroutine of the page.
CloseOne(s, p) == [CoCancel(s, p) EXCEPT !.open = @ \ {p}]

ClosePage(s, p) ==
    IF p = Proxy /\ s.sub # NoPage THEN CloseOne(CloseOne(s, s.sub), p) ELSE CloseOne(s, p)

\* Page::Update() of a page without sub-pages: all events are delivered.
UpdateOne(s, p) == [s EXCEPT !.pending = @ \ {p}, !.missed = @ \ {p}]

\* Mutant: only the sub-page that is shown hears of the events.
UpdatePageOnly(s, p) ==
    IF p # Proxy THEN UpdateOne(s, p)
    ELSE LET fed == [s EXCEPT !.updated = TRUE]
         IN  UpdateOne(IF s.sub = NoPage THEN fed ELSE UpdateOne(fed, s.sub), p)

\* The proxy passes its events on to every sub-page, then updates the one it shows.
UpdatePage(s, p) ==
    IF p # Proxy THEN UpdateOne(s, p)
    ELSE LET fed == [s EXCEPT !.updated = TRUE,
                              !.pending = IF p \in @ THEN @ \cup SubPages ELSE @]
         IN  UpdateOne(IF s.sub = NoPage THEN fed ELSE UpdateOne(fed, s.sub), p)

\* Page::Resize()
ResizePage(s, p) ==
    IF s.size[p] = s.window THEN s
    ELSE IF p # Proxy THEN [s EXCEPT !.size[p] = s.window]
    ELSE [s EXCEPT !.laid = TRUE,
                   !.size = [q \in ScreenPages |->
                               IF q \in {p, s.sub} THEN s.window ELSE @[q]]]

\* ProxyPage::SetCurrentPage()
SetCurrentPage(s, q) ==
    LET closed == IF s.sub # NoPage /\ Proxy \in s.open THEN CloseOne(s, s.sub) ELSE s
        shown == [closed EXCEPT !.sub = q, !.open = @ \cup {q}]
        sized == [shown EXCEPT !.size[q] = s.size[Proxy]]
    IN  IF Proxy \notin s.open THEN [s EXCEPT !.sub = q]
        ELSE IF ~s.laid THEN shown
        ELSE IF s.updated THEN UpdateOne(sized, q) ELSE sized

OpenPage(s, p) ==
    LET opened == [s EXCEPT !.open = @ \cup {p} \cup IF p = Proxy /\ s.sub # NoPage THEN {s.sub} ELSE {}]
    IN  IF p = Proxy /\ s.sub = NoPage THEN SetCurrentPage(opened, FirstSubPage) ELSE opened

\* A page is constructed with all events pending, and so are its sub-pages.
MakePage(s, p) ==
    IF p \in s.made THEN s
    ELSE LET new == {p} \cup IF p = Proxy THEN SubPages ELSE {}
         IN  [s EXCEPT !.made = @ \cup {p}, !.pending = @ \cup new, !.missed = @ \cup new]

\* The page whose OnCommand() gets a command first.
FocusPage(s) == IF s.page = Proxy /\ s.sub # NoPage THEN s.sub ELSE s.page

Switch(s, p) ==
    IF p = s.page THEN s
    ELSE LET made == MakePage(s, p)
             closed == ClosePage([made EXCEPT !.prev = s.page], s.page)
             opened == OpenPage([closed EXCEPT !.page = p], p)
         IN  UpdatePage(ResizePage(opened, p), p)

\* The pages the user sees.
Visible(s) == ({s.page} \cup IF s.page = Proxy THEN {s.sub} ELSE {}) \ {NoPage}

\* Every command first cancels the coroutine of a careful page.
GetCommand(s) == IF s.page \in Careful THEN CoCancel(s, s.page) ELSE s

-----------------------------------------------------------------------------
\* Init(), then Run() updates the screen before the event loop starts.
ScreenInit ==
    \E w \in Sizes :
      LET blank == [page |-> FirstPage, prev |-> FirstPage, sub |-> NoPage, made |-> {},
                    open |-> {}, pending |-> {}, missed |-> {}, window |-> w,
                    size |-> [p \in ScreenPages |-> 0],
                    laid |-> FALSE, updated |-> FALSE, modal |-> NoFrame,
                    task |-> [o \in Owners |-> NoFrame],
                    frame |-> [f \in Frames |-> FreeFrame], twice |-> FALSE]
      IN  screen = UpdatePage(ResizePage(OpenPage(MakePage(blank, FirstPage), FirstPage),
                                         FirstPage), FirstPage)

Running == screen.page # NoPage /\ ~screen.twice

\* Events of MPD reach every page that exists; the current one is updated at once.  A
\* connection that is lost takes the password dialog with it.  An update nested in the one of
\* the page has the effect of a second UpdateScreen.
UpdateScreen ==
    /\ Running
    /\ \E news, connected \in BOOLEAN :
         LET s == IF connected THEN screen ELSE CoCancel(screen, Password)
             all == s.made \cup IF Proxy \in s.made THEN SubPages ELSE {}
             told == IF news THEN [s EXCEPT !.pending = @ \cup s.made, !.missed = @ \cup all]
                     ELSE s
         IN  screen' = UpdatePage(told, s.page)

OnMpdAuth ==
    /\ Running
    /\ screen.task[Password] = NoFrame
    /\ screen' = StartTask(screen, Password, "text")

\* A dialog is answered (the Return key cancels a fragile one); the coroutine shows another one, or ends.
OnAnswer ==
    /\ Running
    /\ screen.modal # NoFrame
    /\ screen.frame[screen.modal].dialog # "fragile"
    /\ LET f == screen.modal
           hidden == [screen EXCEPT !.modal = NoFrame]
           again(d) == ShowModalDialog([hidden EXCEPT !.frame[f].dialog = d], f)
       IN  \/ screen' = Finish(hidden, f)
           \/ /\ screen.frame[f].owner # Password
              /\ screen.frame[f].dialog \in {"text", "yesno"}
              /\ screen' = again("yesno")

\* The user cancels the dialog with a key, or with a click of the mouse.
OnCancelKey ==
    /\ Running
    /\ screen.modal # NoFrame
    /\ screen' = CancelModalDialog(screen)

\* What the user's commands do with pages.
Navigate(s) ==
    {Switch(s, p) : p \in TopPages} \cup {Switch(s, s.prev)}
      \cup IF s.page = Proxy THEN {SetCurrentPage(s, q) : q \in SubPages \ {s.sub}} ELSE {}

\* A command comes from the keyboard while there is no dialog, from a key the dialog does
\* not know (a fragile one is cancelled then), or from LIRC at any time.
Focus ==
    IF screen.modal # NoFrame /\ screen.frame[screen.modal].dialog = "fragile"
    THEN {screen, CancelModalDialog(screen)} ELSE {screen}

NavigateCommand ==
    /\ Running
    /\ \E s \in Focus : screen' \in Navigate(GetCommand(s))

StartCommand ==
    /\ Running
    /\ \E s \in Focus, d \in Dialogs \cup {"none"} :
         LET t == GetCommand(s)
             o == FocusPage(t)
         IN  /\ Interrupting \/ d = "none" \/ t.task[o] = NoFrame
             /\ screen' = IF d = "none" THEN CoStartSilently(t, o) ELSE CoStart(t, o, d)

\* SIGWINCH
OnResize ==
    /\ Running
    /\ \E w \in Sizes : screen' = ResizePage([screen EXCEPT !.window = w], screen.page)

\* Exit(): the pages are destroyed with everything they own.
Exit ==
    /\ Running
    /\ LET s == ClosePage(CancelModalDialog(screen), screen.page)
       IN  screen' = [s EXCEPT !.page = NoPage, !.made = {}, !.sub = NoPage,
                               !.pending = {}, !.missed = {}]

Exited == ~Running /\ UNCHANGED screen

ScreenNext ==
    \/ UpdateScreen \/ OnMpdAuth \/ OnAnswer \/ OnCancelKey
    \/ NavigateCommand \/ StartCommand \/ OnResize \/ Exit \/ Exited

ScreenSpec == ScreenInit /\ [][ScreenNext]_screen

-----------------------------------------------------------------------------
(* Properties *)

\* Every field has its type.
ScreenTypeOK == screen \in Screens

\* Every suspended coroutine can go on: the dialog on the screen is its own, and its owner
\* still has the handle to cancel it with.
Resumable ==
    /\ \A f \in Frames : screen.frame[f] # FreeFrame =>
         screen.modal = f /\ screen.task[screen.frame[f].owner] = f
    /\ screen.modal # NoFrame => screen.frame[screen.modal] # FreeFrame
    /\ \A o \in Owners : screen.task[o] # NoFrame => screen.frame[screen.task[o]].owner = o

\* No dialog of a page outlives its page's stay on the screen.
DialogOfVisiblePage ==
    screen.modal # NoFrame => screen.frame[screen.modal].owner \in Visible(screen) \cup {Password}

\* What MPD has announced is either on the page or will be when the page is shown.
NoEventMissed ==
    /\ screen.missed \subseteq screen.pending \cup IF Proxy \in screen.pending THEN SubPages ELSE {}
    /\ screen.missed \cap Visible(screen) = {}

\* The pages on the screen are open and fill the window; all others are closed.
VisibleIsOpen ==
    /\ screen.open = Visible(screen)
    /\ \A p \in Visible(screen) : screen.size[p] = screen.window

\* A coroutine that is in progress when another one is started is cancelled, once.
DestroyedOnce == ~screen.twice

\* Pages, sub-pages, dialogs and coroutines come and go in any order, each from within the other:
\* what is on the screen is open, current and in touch with the dialog that is waited for.
ScreenSound == ScreenTypeOK /\ VisibleIsOpen /\ NoEventMissed /\ Resumable /\ DialogOfVisiblePage
=============================================================================
