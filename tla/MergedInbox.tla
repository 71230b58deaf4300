----------------------------- MODULE MergedInbox -----------------------------
(***************************************************************************)
(* The inbox of all orgs of a user: each org's newest notifications merged *)
(* into pages that a client asks for one after another, and the count of   *)
(* the new ones (services/inbox_service.ts, mappers/inbox_mapper.ts).      *)
(***************************************************************************)
EXTENDS Integers, FiniteSetsExt, SequencesExt

CONSTANTS
    Orgs,
    Notes,      \* the notifications; one may be in several orgs
    Stamps,     \* the times they may bear: functions of the notifications
    Sizes,      \* what a client may ask for as a page
    PageCap,    \* the most Core gives at once
    Window      \* SUMMARY_WINDOW: the rows of each org a summary looks at

VARIABLES
    at,         \* the time of each notification
    has,        \* the notifications of each org
    limit,      \* the size of a page; 0 for a summary
    until,      \* the newest time of the next page; -1 at the end
    shown,      \* what the pages brought, in order
    silent,     \* the orgs that failed on some page
    cut,        \* the times at which a page ended and another follows
    summary     \* the answer to a summary, or none

Times == UNION {{stamp[n] : n \in Notes} : stamp \in Stamps}

vars == <<at, has, limit, until, shown, silent, cut, summary>>

TypeOK ==
    /\ at \in Stamps /\ has \in [Orgs -> SUBSET Notes]
    /\ limit \in Sizes \cup {0} /\ until \in -1..Max(Times)
    /\ shown \in Seq(Notes) /\ silent \subseteq Orgs /\ cut \subseteq Times
    /\ summary = <<>> \/ summary.status \in {"ok", "partial", "error"}

Init ==
    /\ at \in Stamps /\ has \in [Orgs -> SUBSET Notes]
    /\ limit \in Sizes \cup {0}
    /\ until = Max(Times) /\ shown = <<>> /\ silent = {} /\ cut = {}
    /\ summary = <<>>

Older(org) == {n \in has[org] : at[n] <= until}

\* What Core may answer: as many of the newest as asked for; which of two of one
\* time come first is Core's.
Newest(org, asked) ==
    {page \in SUBSET Older(org) :
        /\ Cardinality(page) = Min({asked, Cardinality(Older(org))})
        /\ \A n \in page, o \in Older(org) \ page : at[n] >= at[o]}

\* The pages of those orgs that answered.
Pages(ok, asked) == {pages \in [ok -> SUBSET Notes] : \A org \in ok : pages[org] \in Newest(org, asked)}

Before(n, o) == at[n] > at[o] \/ (at[n] = at[o] /\ n < o)

\* Newest first, each once: one has as many before it as come before it.
Merged(pages) ==
    LET notes == UNION {pages[org] : org \in DOMAIN pages}
    IN  [i \in 1..Cardinality(notes) |-> CHOOSE n \in notes : Cardinality({o \in notes : Before(o, n)}) = i - 1]

\* Mutant: one page of an org is taken for all of it.
More_OfMerged(merged, pages) == Len(merged) > limit

\* Whether there is more than the page: cut here, or by Core.
More(merged, pages) == Len(merged) > limit \/ \E org \in DOMAIN pages : pages[org] # Older(org)

\* One more than a page, to know whether another follows.
get ==
    /\ limit # 0 /\ until # -1
    /\ \E ok \in SUBSET Orgs : \E pages \in Pages(ok, Min({limit + 1, PageCap})) :
         LET merged == Merged(pages)
             items == SubSeq(merged, 1, Min({limit, Len(merged)}))
             follows == More(merged, pages) /\ items # <<>>
         IN  /\ shown' = shown \o items
             /\ silent' = silent \cup (Orgs \ ok)
             /\ until' = IF follows THEN at[Last(items)] - 1 ELSE -1
             /\ cut' = IF follows THEN cut \cup {at[Last(items)]} ELSE cut
    /\ UNCHANGED <<at, has, limit, summary>>

\* Each org's newest, those after the time seen counted; "or more" when an org's
\* window is full of new ones.
Summarise ==
    /\ limit = 0 /\ summary = <<>>
    /\ \E ok \in SUBSET Orgs, seen_ms \in Times \cup {Min(Times) - 1} : \E pages \in Pages(ok, Window) :
         summary' = [new_count |-> Cardinality({n \in UNION {pages[org] : org \in ok} : at[n] > seen_ms}),
                     capped |-> \E org \in ok : Cardinality(pages[org]) >= Window /\ \A n \in pages[org] : at[n] > seen_ms,
                     status |-> IF ok = {} THEN "error" ELSE IF ok = Orgs THEN "ok" ELSE "partial",
                     seen_ms |-> seen_ms]
    /\ UNCHANGED <<at, has, limit, until, shown, silent, cut>>

Next == get \/ Summarise

Spec == Init /\ [][Next]_vars

-----------------------------------------------------------------------------
\* The pages bring each notification at most once, newest first; when no page
\* follows, one is missing only if it shares its millisecond with the end of a
\* page or all its orgs failed on some page; and a summary that is neither
\* partial nor capped counts exactly the new ones (get, summary).
MissedOnlyIfTied ==
    /\ IsInjective(shown)
    /\ \A i, j \in DOMAIN shown : i < j => at[shown[i]] >= at[shown[j]]
    /\ until = -1 => \A n \in (UNION {has[org] : org \in Orgs}) \ ToSet(shown) :
         at[n] \in cut \/ {org \in Orgs : n \in has[org]} \subseteq silent
    /\ summary # <<>> /\ summary.status = "ok" /\ ~summary.capped =>
         summary.new_count = Cardinality({n \in UNION {has[org] : org \in Orgs} : at[n] > summary.seen_ms})
=============================================================================
