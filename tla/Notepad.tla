------------------------------ MODULE Notepad ------------------------------
(***************************************************************************)
(* The notepad of an account: numbered slots of text that outlive a run.   *)
(* Three things reach it: the two actions of a template                    *)
(* (util/toolbox/notepad and .../list in plugin.rs), the notepad page      *)
(* (api.rs), and both through the same statements of store.rs.             *)
(*                                                                         *)
(* A call is a few statements with an await between them; each statement   *)
(* is a step and two calls interleave between steps.  Of a text only the   *)
(* length is kept.                                                         *)
(***************************************************************************)
EXTENDS Integers, FiniteSets, Sequences, FiniteSetsExt

CONSTANTS Owners,       \* the accounts
          Slots,        \* the calls and requests that can be in flight together
          MaxRequests,  \* bound on the calls and requests of a behaviour
          MinNote, MaxNote, \* the least and the greatest number of a slot (i64)
          NotepadLimit, \* NOTEPAD_LIMIT, the slots an account may have
          ContentLimit, \* NOTEPAD_CONTENT_LIMIT, in pieces of text
          EditLimit     \* NOTEPAD_EDIT_LIMIT, likewise

ASSUME NotepadAssumption ==
    /\ IsFiniteSet(Slots) /\ Slots # {} /\ MaxRequests \in Nat
    /\ MinNote \in Int /\ MaxNote \in Int /\ MinNote < -1 /\ 1 < MaxNote
    /\ {NotepadLimit, ContentLimit, EditLimit} \subseteq Nat \ {0}
    /\ EditLimit <= ContentLimit   \* 256 KiB and 5 MiB

VARIABLES notes,   \* table notepads: owner -> slot -> what the row holds
          pen,     \* what each call is doing
          served,  \* the calls and requests begun
          offered  \* the operations clients use in this behaviour

noteVars == <<notes, pen>>

Numbers == MinNote .. MaxNote
Unassigned == -1

\* NotepadSlot: no row, a row with NULL, a row with text.
Missing == [row |-> "missing"]
Null == [row |-> "null"]
Stored(n) == [row |-> "text", length |-> n]

NoCall == [op |-> "none", at |-> "idle", who |-> "-", flags |-> {}, slot |-> 0,
           data |-> 0]
-----------------------------------------------------------------------------
(***************************************************************************)
(* The statements.                                                         *)
(***************************************************************************)
NotepadSlot(o, n) == notes[o][n]
NotepadSlots(o) == {n \in Numbers : notes[o][n] # Missing}
NotepadWrite(o, n, content) == notes' = [notes EXCEPT ![o][n] = content]
NotepadRemove(o, n) == notes' = [notes EXCEPT ![o][n] = Missing]
-----------------------------------------------------------------------------
PenGoto(w, p) == pen' = [pen EXCEPT ![w].at = p]
PenReply(w) == pen' = [pen EXCEPT ![w] = NoCall]
Rest == UNCHANGED <<served, offered>>

Call(w, op, p, o, f, n, d) ==
    pen' = [pen EXCEPT ![w] = [op |-> op, at |-> p, who |-> o, flags |-> f, slot |-> n,
                               data |-> d]]

\* A flag is looked for by substring, so one argument may contain several.
SlotFlags == SUBSET {"write", "append"}
ListFlags == SUBSET {"add", "delete"}

\* util/toolbox/notepad: the slot is given, or is slot 1.
CallNotepad(w) ==
    /\ "notepad" \in offered
    /\ \E o \in Owners, f \in SlotFlags, n \in Numbers :
          Call(w, "notepad", "read", o, f, n, 1)

\* util/toolbox/notepad/list: no slot is spelled -1, and no data is NULL.
CallNotepadList(w) ==
    /\ "notepad_list" \in offered
    /\ \E o \in Owners, f \in ListFlags, n \in Numbers, d \in {0, 1} :
          Call(w, "notepad_list", "slots", o, f, n, d)

\* The page: PUT and DELETE of one slot, and the two reads.
AskPage(w) ==
    \/ /\ "note_set" \in offered
       /\ \E o \in Owners, n \in Numbers, k \in 1 .. EditLimit + 1 :
             Call(w, "note_set", "check", o, {}, n, k)
    \/ /\ "note_delete" \in offered
       /\ \E o \in Owners, n \in Numbers : Call(w, "note_delete", "remove", o, {}, n, 0)
    \/ /\ "note_get" \in offered
       /\ \E o \in Owners, n \in Numbers : Call(w, "note_get", "look", o, {}, n, 0)

NotepadArrive(w) ==
    /\ pen[w] = NoCall
    /\ served < MaxRequests
    /\ served' = served + 1
    /\ CallNotepad(w) \/ CallNotepadList(w) \/ AskPage(w)
    /\ UNCHANGED <<notes, offered>>

Length(c) == IF c.row = "text" THEN c.length ELSE 0

\* What the call does with what the slot held: write, append with a separator
\* where something is stored, or answer; too long a text is refused.
After(w, seen) ==
    LET c == pen[w]
        body == IF "write" \in c.flags THEN c.data ELSE Length(seen) + c.data
    IN IF c.flags = {} \/ body > ContentLimit
       THEN PenReply(w)
       ELSE pen' = [pen EXCEPT ![w].at = "write", ![w].data = body]

\* Slot 1 is created on its first use; another missing slot is refused.
ReadSlot(w) ==
    /\ pen[w].op = "notepad" /\ pen[w].at = "read"
    /\ LET held == NotepadSlot(pen[w].who, pen[w].slot) IN
       IF held # Missing THEN After(w, held)
       ELSE IF pen[w].slot = 1 THEN PenGoto(w, "create")
       ELSE PenReply(w)
    /\ UNCHANGED notes /\ Rest

\* The new row holds NULL, whatever came into the slot since it was read.
CreateSlot(w) ==
    /\ pen[w].at = "create"
    /\ NotepadWrite(pen[w].who, pen[w].slot, Null)
    /\ After(w, Null)
    /\ Rest

\* Faulty: the account may have one slot more than the limit.
RoomForOneMore(w) == Cardinality(NotepadSlots(pen[w].who)) <= NotepadLimit

Room(w) == Cardinality(NotepadSlots(pen[w].who)) < NotepadLimit

\* slots.last() + 1 in 64 bits, which a release build wraps around.
NextNumber(taken) == LET n == Max(taken) IN IF n = MaxNote THEN MinNote ELSE n + 1

AddSlot(w, taken) ==
    LET n == IF pen[w].slot = Unassigned THEN NextNumber(taken) ELSE pen[w].slot IN
    IF ~Room(w) \/ (pen[w].slot # Unassigned /\ n \in taken)
    THEN PenReply(w)
    ELSE pen' = [pen EXCEPT ![w].at = "write", ![w].slot = n]

\* Slot 1 and numbers below it cannot be deleted by a template.
DeleteSlot(w, taken) ==
    IF pen[w].slot \in taken /\ pen[w].slot > 1
    THEN PenGoto(w, "remove")
    ELSE PenReply(w)

\* An account without a slot is refused whatever it asks; add comes before
\* delete and delete before list.
ListSlots(w) ==
    /\ pen[w].op = "notepad_list" /\ pen[w].at = "slots"
    /\ LET taken == NotepadSlots(pen[w].who) IN
       IF taken = {} THEN PenReply(w)
       ELSE IF "add" \in pen[w].flags THEN AddSlot(w, taken)
       ELSE IF "delete" \in pen[w].flags THEN DeleteSlot(w, taken)
       ELSE PenReply(w)
    /\ UNCHANGED notes /\ Rest

\* The page writes to any positive slot; only a new one can breach the limit.
SetNotepad(w) ==
    /\ pen[w].op = "note_set" /\ pen[w].at = "check"
    /\ IF pen[w].slot < 1 \/ pen[w].data > EditLimit THEN PenReply(w)
       ELSE PenGoto(w, IF NotepadSlot(pen[w].who, pen[w].slot) = Missing
                       THEN "count" ELSE "write")
    /\ UNCHANGED notes /\ Rest

CountSlots(w) ==
    /\ pen[w].at = "count"
    /\ IF Room(w) THEN PenGoto(w, "write") ELSE PenReply(w)
    /\ UNCHANGED notes /\ Rest

\* add turns empty data into NULL.
WriteSlot(w) ==
    /\ pen[w].at = "write"
    /\ NotepadWrite(pen[w].who, pen[w].slot,
                    IF pen[w].op = "notepad_list" /\ pen[w].data = 0
                    THEN Null ELSE Stored(pen[w].data))
    /\ PenReply(w)
    /\ Rest

RemoveSlot(w) ==
    /\ pen[w].at = "remove"
    /\ NotepadRemove(pen[w].who, pen[w].slot)
    /\ PenReply(w)
    /\ Rest

\* One slot, or the list of them: a NULL is read as an empty text.
GetNotepad(w) ==
    /\ pen[w].at = "look"
    /\ PenReply(w)
    /\ UNCHANGED notes /\ Rest

NotepadStep(w) ==
    \/ NotepadArrive(w) \/ ReadSlot(w) \/ CreateSlot(w) \/ ListSlots(w) \/ SetNotepad(w)
    \/ CountSlots(w) \/ WriteSlot(w) \/ RemoveSlot(w) \/ GetNotepad(w)

NotepadNext == \E w \in Slots : NotepadStep(w)
-----------------------------------------------------------------------------
NoteRow == {Missing, Null} \cup {Stored(n) : n \in 0 .. ContentLimit}

\* No account gets past its limit by more than the slots several calls created at
\* the same time and the slot 1 a template made by using it (plugin.rs:1193,
\* api.rs:3322): the count and the insertion are two statements.  A restore is
\* not counted: it may put the slots of a backup beside calls that have counted
\* before it, and do so again.
QuotaHolds ==
    "restore" \notin offered =>
        \A o \in Owners : Cardinality(NotepadSlots(o)) <= NotepadLimit + Cardinality(Slots)
=============================================================================
