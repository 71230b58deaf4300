-------------------------------- MODULE MCViews --------------------------------
(***************************************************************************)
(* The views for TLC, with an event of each of two families,               *)
(* and beside them the trees of teams.                                     *)
(***************************************************************************)
EXTENDS Views, TLC

\* No channel is told from another.
ChannelSymmetry == Permutations(Channels)

RunEvents == {<<"run", "failed">>, <<"phase", "failed">>}
NamedSelectors == {<<"run", "failed">>, <<"run", "*">>, <<"*">>}

\* Nothing is changed any more when there are four rules.
FewRules == part = "rules" => Cardinality(rules["org"]) + Cardinality(realm_rules) <= 3

\* Three pages of rows, of which the cap lets two be read.
SixRows == {"r1", "r2", "r3", "r4", "r5", "r6"}

\* The notifications in order of time, the time of each that of the one before
\* or the next.
FourNotes == 1..4
CloseStamps == {stamp \in [FourNotes -> 1..3] : stamp[1] = 1 /\ \A n \in 1..3 : stamp[n + 1] - stamp[n] \in {0, 1}}

\* One sub-run may lie too deep.
FourRuns == 1..4

Unfinished == -9
Bar == [kind : {"llm", "human"}, start : 0..3, end : {Unfinished, 1, 2, 4}]
Starts == {Unfinished, 0, 1}
Completions == {Unfinished, 3}
TwoBars == UNION {[1..n -> Bar] : n \in 0..2}

\* A run, and sub-runs that broke one in the other down to a depth, the last of
\* them with a failed phase or without.
FiveDepths == 0..4
BrokenRuns ==
    LET Errors == {"none", "daemon", "escalating", "other"}
        Wordings == Errors \cup {"review timed out", "rejected", "exhausted", "401", "missing", "timed out", "exit"}
        Run(state, broke, child, error, phase_error) ==
            [state |-> state, broke |-> broke, child |-> child, error |-> error, phase_error |-> phase_error]
    IN  {[depth \in 0..4 |->
            IF depth = 0 THEN Run(first, bottom > 0 \/ broke, bottom > 0, top_error, IF bottom = 0 THEN phase ELSE "none")
            ELSE Run(IF depth = bottom THEN deepest ELSE "failed", depth < bottom \/ broke, depth < bottom, error,
                     IF depth = bottom THEN phase ELSE "none")] :
         first \in {"failed", "crashed", "cancelled", "running"}, deepest \in {"failed", "crashed"},
         bottom \in 0..4, broke \in BOOLEAN, top_error \in {"none", "other"}, error \in Errors, phase \in Wordings}

\* A team, and two sub-teams whose phases call each other or what is no team.
Callees == {"x", "y", "?"}
SubTeamNames == {"x", "y"}
Callers == {f \in [{"root", "x", "y"} -> SUBSET Callees] : "y" \notin f["y"] /\ "?" \notin f["y"]}
Uses ==
    {[team \in {"root", "x", "y"} |->
        CASE team = "root" -> own_steps
          [] team = "x" -> [phases |-> {"p"}, support |-> {"s"}]
          [] team = "y" -> [phases |-> {"q"}, support |-> {}]] :
     own_steps \in {[phases |-> {}, support |-> {}], [phases |-> {"q"}, support |-> {"s"}]}}

VARIABLES kind, support, roots

trees == <<walk, kind, support, roots>>

\* Three listed teams that call each other and a fourth; one has two versions.
\* The phases of a version may hold what is no team.
Teams == {"a", "b", "c"}
Versions == {"a1", "b1", "b2", "c1"}
Trees == INSTANCE TeamTree WITH
    Listed <- <<"a", "b", "c">>,
    LabelOf <- [a |-> "a", b |-> "b", c |-> "c", x |-> "x", a1 |-> "a", b1 |-> "b", b2 |-> "b", c1 |-> "c"]
               @@ "?" :> "?",
    OrgCalls <- [Teams -> SUBSET (Teams \cup {"x"})],
    VersionCalls <- {f \in [Versions -> SUBSET Versions] : "b2" \notin f["c1"] /\ \A v \in Versions : v \notin f[v]},
    OwnCalls <- {f \in [Versions -> SUBSET (Versions \cup {"?"})] :
                    /\ f["b2"] \subseteq {"c1"} /\ f["c1"] \cap {"b2", "?"} = {}
                    /\ \A v \in Versions : v \notin f[v]},
    OwnSupport <- {{}, {"b2"}, {"c1", "?"}},
    Installed <- [a |-> "a1", b |-> "b1", c |-> "c1"],
    Refs <- Versions \cup {"?"},
    Named <- Versions,
    SUB_TEAM_CAP <- 3

others == <<vars, pages, lists, inbox, attempts, telemetry, times, failures, agents, missing, check, skipped, refused>>

ViewsInit ==
    /\ PartsInit
    /\ IF part = "trees" THEN Trees!Init ELSE kind = "org" /\ support = {} /\ roots = <<>>

ViewsNext ==
    \/ FewRules /\ PartsNext /\ UNCHANGED <<kind, support, roots>>
    \/ part = "trees" /\ Trees!Next /\ UNCHANGED <<part, others>>

ViewsSpec == ViewsInit /\ [][ViewsNext]_<<part, others, trees>>

\* The states of all parts are well typed, the rules of a level name a pair of
\* event and channel once, and the time told of a run is never negative.
PartsTypeOK ==
    CASE part = "rules" -> TypeOK
      [] part = "pages" -> Pages!TypeOK
      [] part = "trees" -> Trees!TypeOK
      [] part = "lists" -> Lists!TypeOK
      [] part = "inbox" -> Inbox!TypeOK
      [] part = "attempts" -> Attempts!TypeOK
      [] part = "telemetry" -> Telemetry!TypeOK
      [] part = "times" -> Time!TypeOK
      [] part = "failures" -> Failure!TypeOK
      [] part = "preflight" -> Check!TypeOK

\* Every listed team is in the tree of its page, whatever circles the calls make
\* (lib/team_tree.ts).
EveryTeamShown == Trees!EveryTeamShown

\* The check before a run on its own.
CheckSpec == ViewsInit /\ part = "preflight" /\ [][ViewsNext]_<<part, others, trees>>

\* The rules on their own.
RulesSpec == ViewsInit /\ part = "rules" /\ [][ViewsNext]_<<part, others, trees>>
================================================================================
