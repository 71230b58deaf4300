-------------------------- MODULE TeamInstallProofs --------------------------
(***************************************************************************)
(* What an install tells of each realm is what Core did, and no realm is   *)
(* refused for something that could not be read, for any list of realms.   *)
(***************************************************************************)
EXTENDS TeamInstall, TLAPS

InstallAssumption == Len(Realms) \in Nat /\ Places = 1 .. Len(Realms)

InstallTypes ==
    /\ refused \in [Places -> {"unjudged", "yes", "no"}]
    /\ denied \in [Places -> BOOLEAN]
    /\ asked \in 0 .. Len(Realms)
    /\ told \in [Places -> {"nothing", "installed", "failed", "lost"}]

\* Core was asked of the realms one by one, and what is told is what it did.
Told ==
    /\ added \subseteq Places
    /\ \A p \in Places :
         /\ p > asked => told[p] = "nothing" /\ p \notin added
         /\ p <= asked => told[p] # "nothing"
         /\ told[p] = "installed" => p \in added
         /\ told[p] = "failed" => p \notin added

\* A realm that is refused would be refused with every read answered.
Grounded == "orgs" \notin unread => \A p \in Places : refused[p] = "yes" => denied[p]

\* Nothing is judged before the reads and nothing asked before the judgement.
Ordered ==
    /\ pc = "reading" => \A p \in Places : refused[p] = "unjudged"
    /\ pc \in {"reading", "judging", "blocked"} => asked = 0
    /\ pc \in {"installed", "incomplete"} => asked = Len(Realms)
    /\ pc = "installed" => \A p \in Places : told[p] \notin {"failed", "lost"}

InstallInv == InstallTypes /\ Told /\ Grounded /\ Ordered

LEMMA InstallInit == InstallAssumption /\ Init => InstallInv
  BY DEF InstallAssumption, Init, InstallInv, InstallTypes, Told, Grounded, Ordered

\* A read that fails leaves a question open, it never answers one.
LEMMA UnreadIsLenient ==
    ASSUME NEW p \in Places, NEW missing, "orgs" \notin missing, _preflight(p, missing)
    PROVE  _preflight(p, {})
  <1>1. CASE rank[p] = "hidden"
    BY <1>1 DEF _preflight
  <1>2. CASE rank[p] # "hidden"
    <2>1. ~Undecided(p, missing) /\ Obstacles(p, missing) # {}
      BY <1>2 DEF _preflight
    <2>2. KnownRole(missing) = role /\ KnownRole({}) = role
      BY DEF KnownRole
    <2>3. ~Undecided(p, {})
      BY <2>1 DEF Undecided
    <2>4. Obstacles(p, missing) \subseteq Obstacles(p, {})
      BY <2>2 DEF Obstacles
    <2> QED
      BY <1>2, <2>1, <2>3, <2>4 DEF _preflight
  <1> QED
    BY <1>1, <1>2

LEMMA ReadInv ==
    ASSUME InstallInv, ReadOrg \/ ReadTeamFails
    PROVE  InstallInv'
  <1>1. /\ pc = "reading" /\ pc' \in {"judging", "failed"}
        /\ UNCHANGED <<refused, denied, asked, told, added>>
    BY DEF ReadOrg, ReadTeamFails
  <1>2. InstallTypes' /\ Told'
    BY <1>1 DEF InstallInv, InstallTypes, Told
  <1>3. Grounded'
    BY <1>1 DEF InstallInv, Ordered, Grounded
  <1>4. Ordered'
    BY <1>1 DEF InstallInv, Ordered
  <1> QED
    BY <1>2, <1>3, <1>4 DEF InstallInv

LEMMA PreflightInv ==
    ASSUME InstallInv, NEW p \in Places, Preflight(p)
    PROVE  InstallInv'
  <1>1. /\ pc = "judging"
        /\ UNCHANGED <<unread, pc, asked, told, added>>
        /\ denied' = [denied EXCEPT ![p] = _preflight(p, {})]
    BY DEF Preflight
  <1>2. PICK missing \in SUBSET {"realm", "members"} :
          refused' = [refused EXCEPT ![p] = IF _preflight(p, missing \cup unread) THEN "yes" ELSE "no"]
    BY DEF Preflight
  <1>3. _preflight(p, {}) \in BOOLEAN
    BY DEF _preflight, Undecided
  <1>4. InstallTypes'
    BY <1>1, <1>2, <1>3 DEF InstallInv, InstallTypes
  <1>5. Told'
    BY <1>1 DEF InstallInv, Told
  <1>6. Grounded'
    <2> SUFFICES ASSUME "orgs" \notin unread, NEW q \in Places, refused'[q] = "yes"
                 PROVE  denied'[q]
      BY <1>1 DEF Grounded
    <2>1. CASE q = p
      <3>1. _preflight(p, missing \cup unread)
        BY <1>2, <2>1 DEF InstallInv, InstallTypes
      <3>2. "orgs" \notin missing \cup unread
        OBVIOUS
      <3> QED
        BY <1>1, <2>1, <3>1, <3>2, UnreadIsLenient DEF InstallInv, InstallTypes
    <2>2. CASE q # p
      BY <1>1, <1>2, <2>2 DEF InstallInv, InstallTypes, Grounded
    <2> QED
      BY <2>1, <2>2
  <1>7. Ordered'
    BY <1>1 DEF InstallInv, Ordered
  <1> QED
    BY <1>4, <1>5, <1>6, <1>7 DEF InstallInv

LEMMA AddInv ==
    ASSUME InstallAssumption, InstallInv, AddTeam
    PROVE  InstallInv'
  <1> DEFINE n == asked + 1
  <1>1. /\ pc = "installing" /\ asked' = n
        /\ UNCHANGED <<unread, pc, refused, denied>>
    BY DEF AddTeam
  <1>2. asked \in Nat /\ Len(Realms) \in Nat /\ n \in Places /\ n <= Len(Realms)
    BY DEF AddTeam, InstallAssumption, InstallInv, InstallTypes
  <1>3. PICK said \in {"installed", "failed", "lost"} :
          /\ told' = [told EXCEPT ![n] = said]
          /\ added' \in {added, added \cup {n}}
          /\ said = "installed" => added' = added \cup {n}
          /\ said = "failed" => added' = added
    BY DEF AddTeam
  <1>4. /\ told'[n] = said /\ \A p \in Places : p # n => told'[p] = told[p]
        /\ \A p \in Places : p # n => (p \in added' <=> p \in added)
    BY <1>2, <1>3 DEF InstallInv, InstallTypes
  <1>5. n \notin added /\ \A p \in Places : p \in Nat /\ (p # n => (p > n <=> p > asked) /\ (p <= n <=> p <= asked))
    BY <1>2 DEF InstallAssumption, InstallInv, Told
  <1> HIDE DEF n
  <1>6. InstallTypes'
    <2>1. n \in 0 .. Len(Realms)
      BY <1>2 DEF n
    <2> QED
      BY <1>1, <1>2, <1>3, <2>1 DEF InstallInv, InstallTypes
  <1>7. Told'
    <2>1. added' \subseteq Places
      BY <1>2, <1>3 DEF InstallInv, Told
    <2>2. ASSUME NEW p \in Places
          PROVE  /\ p > n => told'[p] = "nothing" /\ p \notin added'
                 /\ p <= n => told'[p] # "nothing"
                 /\ told'[p] = "installed" => p \in added'
                 /\ told'[p] = "failed" => p \notin added'
      <3>1. CASE p = n
        BY <1>2, <1>3, <1>4, <1>5, <3>1
      <3>2. CASE p # n
        BY <1>4, <1>5, <3>2 DEF InstallInv, Told
      <3> QED
        BY <3>1, <3>2
    <2> QED
      BY <1>1, <2>1, <2>2 DEF Told
  <1>8. Grounded' /\ Ordered'
    BY <1>1 DEF InstallInv, Grounded, Ordered
  <1> QED
    BY <1>6, <1>7, <1>8 DEF InstallInv

LEMMA AnswerInv == ASSUME InstallInv, Judge \/ Install PROVE InstallInv'
  <1>1. UNCHANGED <<unread, refused, denied, asked, told, added>>
    BY DEF Judge, Install
  <1>2. InstallTypes' /\ Told' /\ Grounded'
    BY <1>1 DEF InstallInv, InstallTypes, Told, Grounded
  <1>3. Ordered'
    BY <1>1 DEF Judge, Install, InstallInv, Ordered
  <1> QED
    BY <1>2, <1>3 DEF InstallInv

LEMMA InstallNext == InstallAssumption /\ InstallInv /\ [Next]_vars => InstallInv'
  <1> SUFFICES ASSUME InstallAssumption, InstallInv, [Next]_vars PROVE InstallInv'
    OBVIOUS
  <1>1. CASE ReadOrg \/ ReadTeamFails
    BY <1>1, ReadInv
  <1>2. CASE Judge \/ Install
    BY <1>2, AnswerInv
  <1>3. CASE AddTeam
    BY <1>3, AddInv
  <1>4. ASSUME NEW p \in Places, Preflight(p) PROVE InstallInv'
    BY <1>4, PreflightInv
  <1>5. CASE UNCHANGED vars
    BY <1>5 DEF vars, Standing, InstallInv, InstallTypes, Told, Grounded, Ordered
  <1> QED
    BY <1>1, <1>2, <1>3, <1>4, <1>5 DEF Next

(***************************************************************************)
(* The report of an install is what Core did, realm by realm, and whichever*)
(* reads of the pre-flight fail, it refuses no realm that Core would take  *)
(* (install, _preflight).                                                  *)
(***************************************************************************)
THEOREM InstallTheorem == ASSUME InstallAssumption PROVE Spec => []ReportIsCore
  <1>1. InstallInv => ReportIsCore
    <2> SUFFICES ASSUME InstallInv PROVE ReportIsCore
      OBVIOUS
    <2>1. asked \in Nat /\ \A p \in Places : p \in 1 .. Len(Realms)
      BY DEF InstallAssumption, InstallInv, InstallTypes
    <2>2. pc = "blocked" => added = {}
      BY <2>1 DEF InstallInv, Ordered, Told
    <2>3. ASSUME pc \in {"installed", "incomplete"}, NEW p \in Places
          PROVE  /\ told[p] # "nothing"
                 /\ told[p] = "installed" => p \in added
                 /\ told[p] = "failed" => p \notin added
      BY <2>1, <2>3 DEF InstallInv, Ordered, Told
    <2>4. pc = "installed" => added = Places
      BY <2>3 DEF InstallInv, InstallTypes, Ordered, Told
    <2> QED
      BY <2>2, <2>3, <2>4 DEF ReportIsCore, InstallInv, Grounded
  <1>2. Spec => []InstallInv
    BY InstallInit, InstallNext, PTL DEF Spec
  <1> QED
    BY <1>1, <1>2, PTL
=============================================================================
