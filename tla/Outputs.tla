------------------------------- MODULE Outputs -------------------------------
(***************************************************************************)
(* The outputs page (OutputsPage.cxx) while it is the current page: the    *)
(* audio outputs and partitions of MPD, listed anew at every event, while  *)
(* the user's commands are about the line under the cursor.                *)
(*                                                                         *)
(* An item is a record [kind, id, on].  What a handler does depends on     *)
(* what MPD answers, so each of its parts is a set of states.  MPD's       *)
(* demand for a password is in MpdClient.                                  *)
(***************************************************************************)
EXTENDS Integers, FiniteSetsExt, SequencesExt

CONSTANTS
    NOutputs,       \* bound: outputs
    NPartitions     \* bound: partitions, the first of which cannot be deleted

ASSUME OutputsAssumption == NOutputs \in Nat /\ NPartitions \in Nat \ {0}

VARIABLE outs

Outputs == 1..NOutputs
Partitions == 1..NPartitions
MainPartition == 1
NoPartition == 0
ViewFlags == {"output", "partition"}
OutputItem(o, on) == [kind |-> "output", id |-> o, on |-> on]
PartitionItem(p) == [kind |-> "partition", id |-> p, on |-> FALSE]
NewPartition == [kind |-> "new", id |-> 0, on |-> FALSE]
HashOf(item) == <<item.kind, item.id>>
NoHash == <<>>

\* MPD before 0.22 has one partition, which has no name ("parted" is FALSE).
OutputsInit ==
    \E parted \in BOOLEAN :
        outs = [on |-> {}, home |-> [o \in Outputs |-> MainPartition], parts |-> {MainPartition},
                mine |-> MainPartition, news |-> {}, parted |-> parted,           \* MPD
                conn |-> FALSE, idle |-> FALSE, status |-> NoPartition,           \* the client
                events |-> {}, dirty |-> FALSE,
                items |-> <<>>, length |-> 0, cursor |-> 1, range |-> FALSE,      \* the page
                active |-> NoPartition, dialog |-> FALSE]

\* What MPD lists, in its order, without the "dummy" outputs which were moved to another
\* partition.
OutputLines(s) ==
    LET own == SetToSeq({o \in Outputs : s.home[o] = s.mine})
    IN  [i \in DOMAIN own |-> OutputItem(own[i], own[i] \in s.on)]

PartitionLines(s) ==
    LET parts == SetToSeq(s.parts)
    IN  IF s.parted THEN [i \in DOMAIN parts |-> PartitionItem(parts[i])] \o <<NewPartition>> ELSE <<>>

OwnPartition(s) == IF s.parted THEN s.mine ELSE NoPartition

-----------------------------------------------------------------------------
(* The page *)

\* ListCursor::SetLength()
LengthSet(s) ==
    LET length == Len(s.items)
    IN  [s EXCEPT !.length = length, !.cursor = IF @ > length THEN Max({length, 1}) ELSE @]

\* Mutant: the cursor is not restored.
RelistedOnly(s, before) == LengthSet(s)

\* SetLength() and SetCursorHash(), with the hash of the item the cursor was on before
Relisted(s, before) ==
    LET same == {i \in 1..Len(s.items) : HashOf(s.items[i]) = before}
    IN  IF same = {} THEN LengthSet(s)
        ELSE [LengthSet(s) EXCEPT !.cursor = Min(same), !.range = FALSE]

\* GetCursorHash(): after Clear() the cursor may be at an item that is no longer there, and
\* then the hash is that of whatever is found in its place.
CursorHashes(s) ==
    IF s.range \/ s.cursor > s.length THEN {NoHash}
    ELSE IF s.cursor <= Len(s.items) THEN {HashOf(s.items[s.cursor])}
    ELSE {NoHash, HashOf(NewPartition)} \cup {HashOf(OutputItem(o, TRUE)) : o \in Outputs}
         \cup {HashOf(PartitionItem(p)) : p \in Partitions}

\* Disconnect() and OnMpdConnectionLost(): the page is updated, with nothing to list.
Lose(s) ==
    LengthSet([s EXCEPT !.conn = FALSE, !.idle = FALSE, !.news = {}, !.mine = MainPartition,
                        !.status = NoPartition, !.active = NoPartition,
                        !.events = ViewFlags, !.items = <<>>])

\* fill_outputs_list() and FillPartitionList(), each of which may find the connection lost;
\* the second one appends its last line nevertheless.
FillOutputs(s) ==
    IF s.conn THEN {[s EXCEPT !.items = @ \o OutputLines(s)], Lose(s)} ELSE {s}

FillPartitions(s) ==
    IF s.conn /\ s.parted
    THEN {[s EXCEPT !.items = @ \o PartitionLines(s)], [Lose(s) EXCEPT !.items = <<NewPartition>>]}
    ELSE {s}

Filled(s) == UNION {FillPartitions(n) : n \in FillOutputs(s)}

Cleared(s) == [s EXCEPT !.items = <<>>]

\* Reload() and Update(), when the client is not in idle mode
ReloadAwake(s) ==
    {Relisted(n, hash) : n \in Filled(Cleared(s)), hash \in CursorHashes(s)}

UpdateOutputs(s) ==
    LET shown == [s EXCEPT !.active = s.status]
    IN  IF s.events # {} THEN ReloadAwake(shown) ELSE {shown}

\* mpdclient::Update()
StatusUpdates(s) == IF s.conn THEN {[s EXCEPT !.status = OwnPartition(s)], Lose(s)} ELSE {s}

\* What OnIdle() and UpdateClient() do after that
ScreenUpdates(S) == {[n EXCEPT !.events = {}] : n \in UNION {UpdateOutputs(s) : s \in S}}

\* mpdclient::OnIdle()
OnIdleOutputs(s) ==
    ScreenUpdates(StatusUpdates([s EXCEPT !.idle = FALSE, !.events = @ \cup s.news, !.news = {}]))

\* GetConnection(): leaving idle mode, the client is told what is new, which may be about
\* neither outputs nor partitions, if anything is.
Connection(s) ==
    IF s.idle
    THEN OnIdleOutputs(s) \cup {Lose(s)} \cup (IF s.news = {} THEN {[s EXCEPT !.idle = FALSE]} ELSE {})
    ELSE {s}

\* Taking the connection may reload the page; it has if the events were taken care of.
ReloadsFirst(s) == s.idle /\ s.news \cup s.events # {}
Reloaded(s) == ReloadsFirst(outs) /\ s.events = {}

\* Reload(): what a reload within it has listed is not cleared again.
ReloadOutputs(s) ==
    UNION {{Relisted(n, hash) : n \in Filled(c), hash \in CursorHashes(s)}
             : c \in Connection(Cleared(s))}

-----------------------------------------------------------------------------
(* Commands *)

ViewCommand(s) == [s EXCEPT !.dirty = TRUE, !.dialog = FALSE]

AtItem(kind) == outs.cursor <= Len(outs.items) /\ outs.items[outs.cursor].kind = kind

\* A request to MPD: done, refused (HandleError() clears the error), or the connection is lost.
Requested(s, done) == {done, s, Lose(s)}

\* The item which is used was looked up before GetConnection(), whose reload has destroyed
\* it: what is found then is what it was, or what is in its place, if that is an item of
\* the same kind (if not, a null pointer is used).
ItemsAfter(s) ==
    LET item == outs.items[outs.cursor]
        now == IF Reloaded(s) THEN {s.items[i] : i \in DOMAIN s.items \cap {outs.cursor}} ELSE {}
    IN  {item} \cup {i \in now : i.kind = item.kind}

EnabledBy(s, item) ==
    [s EXCEPT !.on = IF item.on THEN @ \ {item.id} ELSE @ \cup {item.id},
              !.news = @ \cup {"output"}, !.events = @ \cup {"output"}]

\* Toggle() of an output
ToggleOutput ==
    /\ AtItem("output")
    /\ \E s \in Connection(ViewCommand(outs)) :
          \/ ~s.conn /\ outs' = s
          \/ s.conn /\ \E item \in ItemsAfter(s) : outs' \in Requested(s, EnabledBy(s, item))

\* ActivatePartition(), with the name of a partition that the reload has freed: it may be any.
\* MPD tells a client that has changed its partition of everything in the new one.
ActivatePartition ==
    /\ AtItem("partition")
    /\ \E s \in Connection(ViewCommand(outs)) :
          \/ ~s.conn /\ outs' = s
          \/ /\ s.conn
             /\ \E p \in IF Reloaded(s) THEN Partitions ELSE {outs.items[outs.cursor].id} :
                   outs' \in Requested(s, IF p \in s.parts \ {s.mine}
                                          THEN [s EXCEPT !.mine = p, !.news = @ \cup {"output"}] ELSE s)

\* Delete(): MPD refuses if there are clients or outputs in it.
DeletePartition ==
    /\ AtItem("partition")
    /\ \E s \in Connection(ViewCommand(outs)) :
          \/ ~s.conn /\ outs' = s
          \/ s.conn /\ \E item \in ItemsAfter(s) :
                outs' \in Requested(s,
                    IF item.id \in s.parts \ ({s.mine, MainPartition} \cup Range(s.home))
                    THEN [s EXCEPT !.parts = @ \ {item.id}, !.news = @ \cup {"partition"}] ELSE s)

\* CreateNewPartition(): until the dialog is answered, then with what is the connection then
AskPartitionName ==
    AtItem("new") /\ outs' = [ViewCommand(outs) EXCEPT !.dialog = outs.conn]

CreatePartition ==
    /\ outs.dialog
    /\ \E s \in Connection(ViewCommand(outs)), p \in Partitions :
          \/ ~s.conn /\ outs' = s
          \/ s.conn /\ outs' \in Requested(s,
                IF p \notin s.parts
                THEN [s EXCEPT !.parts = @ \cup {p}, !.news = @ \cup {"partition"}] ELSE s)

\* No name is entered, or a mouse click cancels the dialog, which updates nothing.
CancelPartitionName ==
    /\ outs.dialog
    /\ \E s \in {outs, ViewCommand(outs)} : outs' = [s EXCEPT !.dialog = FALSE]

ScreenUpdateOutputs == outs' \in ReloadOutputs(ViewCommand(outs))

\* Any other command, which may take the connection for something else, as the player's do
OtherCommand == outs' \in {ViewCommand(outs)} \cup Connection(ViewCommand(outs))

\* The cursor moves by a line or a page, or it is set by the mouse, which ends the range.
MoveToOutput ==
    \E i \in DOMAIN outs.items, range \in {outs.range, FALSE} :
        outs' = [ViewCommand(outs) EXCEPT !.cursor = i, !.range = range]

SelectRange ==
    outs' = [ViewCommand(outs) EXCEPT !.range = ~@]

-----------------------------------------------------------------------------
(* Callbacks of the event loop, and MPD *)

\* Instance::OnUpdateScreen(): it does not ask MPD for its status.
DrawOutputs ==
    /\ outs.dirty
    /\ LET shown == [outs EXCEPT !.active = outs.status]
       IN  \E s \in IF outs.events # {} THEN ReloadOutputs(shown) ELSE {shown} :
              outs' = [s EXCEPT !.dirty = FALSE, !.events = {}]

\* Instance::UpdateClient(), called by the timer that runs while a song is played
UpdateClientOutputs(s) == ScreenUpdates(UNION {StatusUpdates(c) : c \in Connection(s)})

OutputsTimer == outs' \in UpdateClientOutputs(outs)

EnterOutputsIdle == outs.conn /\ ~outs.idle /\ outs' = [outs EXCEPT !.idle = TRUE]

\* An idle event, of these or of another kind
OutputsEvent == outs.idle /\ outs' \in OnIdleOutputs(outs)

\* OnIdleError(), or HandleError() of a request made elsewhere
OutputsLost == outs.conn /\ outs' = Lose(outs)

OutputsConnected ==
    ~outs.conn /\ outs' \in UpdateClientOutputs([outs EXCEPT !.conn = TRUE, !.events = ViewFlags])

\* Other clients: nobody deletes a partition this client is in, or with an output in it.
OthersChange ==
    LET Told(flag) == IF outs.conn THEN {flag} ELSE {}
    IN  \/ \E o \in Outputs :
              outs' = [outs EXCEPT !.on = SymDiff(@, {o}), !.news = @ \cup Told("output")]
        \/ \E o \in Outputs, p \in outs.parts :
              outs' = [outs EXCEPT !.home[o] = p, !.news = @ \cup Told("output")]
        \/ outs.parted /\ \E p \in Partitions \ ({MainPartition, outs.mine} \cup Range(outs.home)) :
              outs' = [outs EXCEPT !.parts = SymDiff(@, {p}), !.news = @ \cup Told("partition")]

OutputsNext ==
    \/ ToggleOutput \/ ActivatePartition \/ DeletePartition \/ AskPartitionName \/ CreatePartition
    \/ CancelPartitionName \/ ScreenUpdateOutputs \/ OtherCommand \/ MoveToOutput \/ SelectRange
    \/ DrawOutputs \/ OutputsTimer \/ EnterOutputsIdle \/ OutputsEvent \/ OutputsLost
    \/ OutputsConnected \/ OthersChange

OutputsSpec == OutputsInit /\ [][OutputsNext]_outs

-----------------------------------------------------------------------------
(* Properties *)

\* Types; between two events the list window knows the length of the list, with the cursor
\* on a line, and the partition in use exists.
OutputsTypeOK ==
    /\ outs.length = Len(outs.items) /\ outs.cursor \in 1..Max({outs.length, 1})
    /\ outs.mine \in outs.parts /\ outs.events \subseteq ViewFlags /\ outs.news \subseteq ViewFlags

\* When there is nothing MPD has still to tell, and nothing to be drawn, the page lists what
\* MPD has, each in the state it is in, and the partition in use is the highlighted one.  The
\* outputs and partitions of a lost server are not listed, nor is any partition highlighted.
ListsOutputs ==
    /\ outs.conn /\ outs.news = {} /\ ~outs.dirty
          => /\ Range(outs.items) = Range(OutputLines(outs) \o PartitionLines(outs))
             /\ outs.active = OwnPartition(outs)
    /\ ~outs.conn => Range(outs.items) \subseteq {NewPartition} /\ outs.active = NoPartition

\* Violated: a reload that finds events when it leaves idle mode lists everything twice.
ListsOnce == IsInjective([i \in DOMAIN outs.items |-> HashOf(outs.items[i])])

\* However the list changes, the cursor stays with the output or partition it is on.
CursorKeepsOutput ==
    [][outs'.items # outs.items
         => \A hash \in CursorHashes(outs) :
              \/ hash = NoHash \/ CursorHashes(outs') = {hash}
              \/ \A item \in Range(outs'.items) : HashOf(item) # hash]_outs

\* What the toggle command changes is the output on the user's line, from what the line shows
\* to the other state, unless the page is reloaded on the way to MPD.
TogglesAsShown ==
    [][outs'.on # outs.on /\ ~ReloadsFirst(outs) /\ ToggleOutput
         => LET item == outs.items[outs.cursor]
            IN  outs'.on = IF item.on THEN outs.on \ {item.id} ELSE outs.on \cup {item.id}]_outs

\* The page is a view of MPD's outputs and partitions: it comes to list what there is, under a
\* cursor that keeps its line, and a toggle that no reload overtakes is of what its line shows.
OutputsAsTold ==
    /\ [](OutputsTypeOK /\ ListsOutputs)
    /\ CursorKeepsOutput /\ TogglesAsShown
=============================================================================
