------------------------- MODULE ChannelDestinations -------------------------
(***************************************************************************)
(* The destinations of one notification channel.  Core keeps the list and  *)
(* replaces it whole; the BFF changes it by reading it, changing its copy  *)
(* and writing the copy back (services/notification_center_service.ts).    *)
(* Several browsers change the same channel.                               *)
(***************************************************************************)
EXTENDS Naturals, SequencesExt

CONSTANTS
    Callers,        \* the requests; each changes the channel once
    Destination     \* a function: each destination's type

VARIABLES
    personal,       \* whether the channel is a user's own
    exists,         \* whether Core still has the channel
    list,           \* its destinations, as Core keeps them
    writes,         \* how often Core's list was replaced
    caller          \* the requests

vars == <<personal, exists, list, writes, caller>>

Lists(n) == {s \in BoundedSeq(DOMAIN Destination, n) : s # <<>> /\ IsInjective(s)}

\* A change: destinations to add, in order, or a place in the list the user
\* saw and the type of what stood there.
Additions == [kind : {"add"}, new : BoundedSeq(DOMAIN Destination, 2) \ {<<>>}]
Removals(shown) == {[kind |-> "remove", index |-> i, type |-> Destination[shown[i]]] : i \in DOMAIN shown}

NoChange == [kind |-> "none"]

TypeOK ==
    /\ personal \in BOOLEAN /\ exists \in BOOLEAN
    /\ Range(list) \subseteq DOMAIN Destination
    /\ writes \in 0..Cardinality(Callers)
    /\ \A c \in Callers : caller[c].pc \in {"away", "looking", "writing", "ok", "refused", "failed"}

Init ==
    /\ personal \in BOOLEAN /\ exists = TRUE /\ writes = 0
    /\ list \in Lists(3)
    /\ caller = [c \in Callers |-> [pc |-> "away", shown |-> <<>>, seen |-> 0, change |-> NoChange, copy |-> <<>>, read |-> 0]]

Goes(c, pc) == caller' = [caller EXCEPT ![c].pc = pc]

\* The user opens the page and sees the list.
Show(c) ==
    /\ caller[c].pc = "away" /\ exists
    /\ caller' = [caller EXCEPT ![c].pc = "looking", ![c].shown = list, ![c].seen = writes]
    /\ UNCHANGED <<personal, exists, list, writes>>

\* Each new destination joins the list unless the list has it.
Add(s, new) == FoldLeft(LAMBDA have, d : IF d \in Range(have) THEN have ELSE Append(have, d), s, new)

\* Mutant: the type at the place is not compared.
RefusesUnlessLast(s, change) ==
    IF change.kind = "add"
    THEN personal /\ \E d \in Range(change.new) : Destination[d] = "channel_ref"
    ELSE change.index > Len(s) \/ Len(s) = 1

Refuses(s, change) ==
    IF change.kind = "add"
    THEN personal /\ \E d \in Range(change.new) : Destination[d] = "channel_ref"
    ELSE \/ change.index > Len(s)
         \/ Destination[s[change.index]] # change.type
         \/ Len(s) = 1

Changed(s, change) == IF change.kind = "add" THEN Add(s, change.new) ELSE RemoveAt(s, change.index)

\* change_destinations up to its write: the list is read and its copy changed.
ChangeDestinations(c) ==
    /\ caller[c].pc = "looking"
    /\ \E change \in Additions \cup Removals(caller[c].shown) :
         IF ~exists \/ Refuses(list, change)
         THEN caller' = [caller EXCEPT ![c].pc = "refused"]
         ELSE caller' = [caller EXCEPT ![c].pc = "writing", ![c].change = change, ![c].copy = Changed(list, change),
                                       ![c].read = writes]
    /\ UNCHANGED <<personal, exists, list, writes>>

\* Core cannot be asked, or does not take the list: a write whose reply is lost
\* may have been taken.
CoreFails(c) ==
    /\ caller[c].pc \in {"looking", "writing"}
    /\ Goes(c, "failed")
    /\ UNCHANGED <<personal, exists, list, writes>>

SetChannelDestinations(c) ==
    /\ caller[c].pc = "writing"
    /\ IF exists
       THEN /\ list' = caller[c].copy /\ writes' = writes + 1
            /\ \E told \in {"ok", "failed"} : Goes(c, told)
       ELSE Goes(c, "failed") /\ UNCHANGED <<list, writes>>
    /\ UNCHANGED <<personal, exists>>

\* Somebody deletes the channel.
DeleteChannel ==
    /\ exists /\ exists' = FALSE
    /\ UNCHANGED <<personal, list, writes, caller>>

Next ==
    \/ DeleteChannel
    \/ \E c \in Callers : Show(c) \/ ChangeDestinations(c) \/ CoreFails(c) \/ SetChannelDestinations(c)

Spec == Init /\ [][Next]_vars

-----------------------------------------------------------------------------
\* What one write takes from Core's list.
Lost == Range(list) \ Range(list')

\* A change of a channel's destinations leaves at least one, none twice, and
\* takes away nothing its user did not point at, unless another change was
\* written between its read and its write; if nothing was written since the
\* user looked, a removal takes exactly the destination in that place
\* (change_destinations).
LostOnlyToOverlap ==
    [][\A c \in Callers : caller[c].pc = "writing" /\ writes' # writes /\ caller'[c].pc # "writing" =>
        /\ list' # <<>> /\ IsInjective(list')
        /\ caller[c].read = writes =>
             IF caller[c].change.kind = "add" THEN Lost = {}
             ELSE /\ {Destination[d] : d \in Lost} = {caller[c].change.type}
                  /\ caller[c].seen = writes => Lost = {caller[c].shown[caller[c].change.index]}]_vars
=============================================================================
