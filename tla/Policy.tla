-------------------------------- MODULE Policy --------------------------------
(***************************************************************************)
(* The thresholds by which a group is judged, and the versions that say    *)
(* later which ones they were.  apps.wlt.policy.                           *)
(*                                                                         *)
(* A threshold is a row in force over a range of days, at a place or       *)
(* everywhere.  There are two readers of the rows: resolve, for one key,   *)
(* and PolicySet, for all of them at once.  A gate is evaluated against a  *)
(* PolicySet of the group's kebele; its result, and then the event that    *)
(* records the decision, each name a version, which is the latest one      *)
(* where that says the same and a new one where it does not.  A decision   *)
(* is a transaction: until its end others see none of its versions.        *)
(*                                                                         *)
(* Where rows tie nothing says which is read, so that a reader is a set of *)
(* values.  Left out: what the thresholds mean, and what a gate concludes. *)
(***************************************************************************)
EXTENDS Naturals, Sequences, FiniteSets

CONSTANTS
    Key, Value,
    Fallback,   \* FALLBACKS: what holds where there is no row
    Place,      \* locations
    Parent,     \* the location above, or Nowhere
    Nowhere,    \* the scope of a global row, and the place of a global reading
    Decider,    \* requests that may be on their way at once
    LastDay,    \* bound: the days there are
    VersionCap, EventCap,   \* bounds: rows of PolicyVersion, and decisions
    Regimes     \* who decides, what administrators do, and for how long

Regime == [by : SUBSET Decider, atOnce : Nat, does : SUBSET STRING, orderly : BOOLEAN,
           rows : Nat, days : Nat]

ASSUME PolicyAssumption ==
    /\ Nowhere \notin Place /\ IsFiniteSet(Place)
    /\ IsFiniteSet(Decider) /\ Decider \cap {"all", "none"} = {}
    /\ Parent \in [Place -> Place \cup {Nowhere}]
    /\ Fallback \in [Key -> Value]
    /\ {LastDay, VersionCap, EventCap} \subseteq Nat
    /\ Regimes \subseteq Regime

VARIABLES
    rows,       \* the rows of PolicyParameter
    onDate,
    versions,   \* the rows of PolicyVersion as they were created; of whom each is: of
                \* the decision that created it, when that has ended of all, or of none
    verdicts,   \* the decisions that were recorded
    call,       \* call[d]: the request of d, with what it has read
    was,        \* history: what was read at the end of each day gone by
    regime      \* which of Regimes this behaviour shows

policyVars == <<rows, onDate, versions, verdicts, call, was, regime>>

Scope == Place \cup {Nowhere}
Open == 0    \* effective_to is null

\* judged: what the gate was measured by; rules: what is to be given a version;
\* apart: history, whether the global rules need not be those of the gate.
NoCall == [stage |-> "", look |-> FALSE, rules |-> Fallback, judged |-> Fallback, gate |-> 0,
           apart |-> FALSE]

-----------------------------------------------------------------------------
(* The two readers.                                                        *)

\* Wrong: a row that is open is in force.
OpenOrLater(day) == {r \in rows : r.to = Open \/ (r.from <= day /\ r.to > day)}

\* PolicyParameterQuerySet.in_force.
InForce(day) == {r \in rows : r.from <= day /\ (r.to = Open \/ r.to > day)}

Node == 1 .. Cardinality(Place)

\* Above the highest there is nowhere.
LocationChain(place) ==
    LET node[n \in Node] ==
            IF n = 1 THEN place
            ELSE IF node[n - 1] = Nowhere THEN Nowhere ELSE Parent[node[n - 1]]
    IN  node

First(S) == CHOOSE n \in S : \A i \in S : n <= i

\* resolve: of each scope the latest ...
AtScope(key, scope, day) == {r \in InForce(day) : r.key = key /\ r.scope = scope}
Latest(found) == {r.value : r \in {s \in found : \A q \in found : q.from <= s.from}}

\* ... then the first scope of the chain that has one.
ResolveKey(key, place, day) ==
    LET chain == LocationChain(place)
        placed == {n \in Node : chain[n] # Nowhere /\ AtScope(key, chain[n], day) # {}}
    IN  IF placed # {} THEN Latest(AtScope(key, chain[First(placed)], day))
        ELSE IF AtScope(key, Nowhere, day) # {} THEN Latest(AtScope(key, Nowhere, day))
        ELSE {Fallback[key]}

\* The global row ranks last.
Rank(r, chain) ==
    IF r.scope = Nowhere THEN Cardinality(Place) + 1 ELSE First({n \in Node : chain[n] = r.scope})

\* Wrong: whatever started later supersedes.
LaterBeats(q, r, chain) ==
    q.from > r.from \/ (q.from = r.from /\ Rank(q, chain) < Rank(r, chain))

\* PolicySet._load: which of two rows of one key is kept.
Beats(q, r, chain) ==
    Rank(q, chain) < Rank(r, chain) \/ (Rank(q, chain) = Rank(r, chain) /\ q.from > r.from)

\* ... and which are looked at.
Seen(key, place, day) ==
    {r \in InForce(day) : r.key = key
                           /\ (r.scope = Nowhere \/ \E n \in Node : LocationChain(place)[n] = r.scope)}

\* PolicySet.get, of a set loaded for this place and day.
SetValue(key, place, day) ==
    LET mine == Seen(key, place, day)
        best == {r \in mine : \A q \in mine : ~Beats(q, r, LocationChain(place))}
    IN  IF mine = {} THEN {Fallback[key]} ELSE {r.value : r \in best}

\* PolicySet.as_dict.
LoadedSets(place, day) ==
    {rules \in [Key -> Value] : \A key \in Key : rules[key] \in SetValue(key, place, day)}

-----------------------------------------------------------------------------

PolicyInit ==
    /\ rows = {} /\ onDate = 1 /\ versions = <<>> /\ verdicts = {} /\ was = <<>>
    /\ call = [d \in Decider |-> NoCall]
    /\ regime \in Regimes

\* The rows or the day move, maybe under a gate that is being evaluated.
RowsMove ==
    /\ call' = [d \in Decider |->
                  [call[d] EXCEPT !.apart = @ \/ call[d].stage \in {"gate", "mint_gate"}]]
    /\ UNCHANGED <<versions, verdicts, regime>>

(* The administrator.                                                      *)

\* In order: a row starts today or later, and none ends before today.
AddParameter(key, scope, value, from) ==
    /\ "add" \in regime.does /\ Cardinality(rows) < regime.rows
    /\ from <= onDate + 1 /\ (regime.orderly => from >= onDate)
    /\ rows' = rows \cup {[key |-> key, scope |-> scope, value |-> value, from |-> from,
                           to |-> Open]}
    /\ RowsMove
    /\ UNCHANGED <<onDate, was>>

CloseParameter(r, to) ==
    /\ "close" \in regime.does /\ r.to = Open
    /\ to > r.from /\ to <= onDate + 1 /\ (regime.orderly => to >= onDate)
    /\ rows' = (rows \ {r}) \cup {[r EXCEPT !.to = to]}
    /\ RowsMove
    /\ UNCHANGED <<onDate, was>>

\* In place, which the form warns of and allows.
RewriteParameter(r, value) ==
    /\ ~regime.orderly /\ r.value # value
    /\ rows' = (rows \ {r}) \cup {[r EXCEPT !.value = value]}
    /\ RowsMove
    /\ UNCHANGED <<onDate, was>>

PolicyDay ==
    /\ onDate < regime.days
    /\ onDate' = onDate + 1
    /\ was' = Append(was, [place \in Scope |-> [key \in Key |-> SetValue(key, place, onDate)]])
    /\ RowsMove
    /\ UNCHANGED rows

(* A decision: evaluate, then, unless somebody only looks, the event.      *)

Proceeds(d, next) ==
    call' = [call EXCEPT ![d] = next] /\ UNCHANGED <<rows, onDate, was, regime>>

\* evaluate loads the set; readiness and the readiness card end with its result.
Evaluate(d, place, look) ==
    /\ d \in regime.by /\ call[d].stage = ""
    /\ Cardinality({e \in Decider : call[e].stage # ""}) < regime.atOnce
    /\ \E rules \in LoadedSets(place, onDate) :
          Proceeds(d, [stage |-> "gate", look |-> look, rules |-> rules, judged |-> rules, gate |-> 0,
                       apart |-> LoadedSets(Nowhere, onDate) # {rules}])
    /\ UNCHANGED <<versions, verdicts>>

Visible(d) == {n \in DOMAIN versions : versions[n].of \in {d, "all"}}

\* Wrong: order_by("created_at").first().
OldestVersion(d) ==
    IF Visible(d) = {} THEN 0 ELSE CHOOSE n \in Visible(d) : \A i \in Visible(d) : n <= i

\* order_by("-created_at").first(), or none.
LatestVersion(d) ==
    IF Visible(d) = {} THEN 0 ELSE CHOOSE n \in Visible(d) : \A i \in Visible(d) : i <= n

LatestSays(d, rules) == LatestVersion(d) # 0 /\ versions[LatestVersion(d)].rules = rules

\* What d has created becomes everybody's, or nobody's.
Ended(table, d, of) ==
    [n \in DOMAIN table |-> IF table[n].of = d THEN [table[n] EXCEPT !.of = of] ELSE table[n]]

\* The gate's result is done with; or the event loads the global set for its own.
NamesGate(d, version, table) ==
    /\ call[d].stage \in {"gate", "mint_gate"}
    /\ \/ /\ call[d].look
          /\ versions' = Ended(table, d, "all")
          /\ Proceeds(d, NoCall)
       \/ /\ ~call[d].look
          /\ versions' = table
          /\ \E rules \in LoadedSets(Nowhere, onDate) :
                Proceeds(d, [call[d] EXCEPT !.stage = "event", !.rules = rules, !.gate = version])
    /\ UNCHANGED verdicts

NamesEvent(d, version, table) ==
    /\ call[d].stage \in {"event", "mint_event"}
    /\ Cardinality(verdicts) < EventCap
    /\ verdicts' = verdicts \cup {[judged |-> call[d].judged, gate |-> call[d].gate, event |-> version,
                                apart |-> call[d].apart]}
    /\ versions' = Ended(table, d, "all")
    /\ Proceeds(d, NoCall)

Names(d, version, table) == NamesGate(d, version, table) \/ NamesEvent(d, version, table)

\* current_version, where the latest says the same ...
ReuseVersion(d) ==
    /\ call[d].stage \in {"gate", "event"}
    /\ LatestSays(d, call[d].rules)
    /\ Names(d, LatestVersion(d), versions)

\* ... and where it does not.
NeedsVersion(d) ==
    /\ call[d].stage \in {"gate", "event"}
    /\ ~LatestSays(d, call[d].rules)
    /\ Proceeds(d, [call[d] EXCEPT !.stage = IF @ = "gate" THEN "mint_gate" ELSE "mint_event"])
    /\ UNCHANGED <<versions, verdicts>>

MintVersion(d) ==
    /\ call[d].stage \in {"mint_gate", "mint_event"}
    /\ Len(versions) < VersionCap
    /\ Names(d, Len(versions) + 1, Append(versions, [rules |-> call[d].rules, of |-> d]))

\* The gate has failed and there is no reason to override it: nothing was written.
Refused(d) ==
    /\ call[d].stage = "event"
    /\ versions' = Ended(versions, d, "none")
    /\ Proceeds(d, NoCall)
    /\ UNCHANGED verdicts

PolicyNext ==
    \/ \E key \in Key, scope \in Scope, value \in Value, from \in 1 .. LastDay + 1 :
          AddParameter(key, scope, value, from)
    \/ \E r \in rows :
          \/ \E to \in 2 .. LastDay + 1 : CloseParameter(r, to)
          \/ \E value \in Value : RewriteParameter(r, value)
    \/ PolicyDay
    \/ \E d \in Decider :
          \/ \E place \in Place, look \in BOOLEAN : Evaluate(d, place, look)
          \/ ReuseVersion(d) \/ NeedsVersion(d) \/ MintVersion(d) \/ Refused(d)

PolicySpec == PolicyInit /\ [][PolicyNext]_policyVars

-----------------------------------------------------------------------------
(* Properties.                                                             *)

\* The two readers agree, at every place and of every day up to this one, on rows
\* that overlap, tie, and were closed or not; and as long as rows are superseded
\* and not rewritten, a day gone by reads as it did.
RulesOfTheDay ==
    \A day \in 1 .. onDate, place \in Scope, key \in Key :
       /\ ResolveKey(key, place, day) = SetValue(key, place, day)
       /\ regime.orderly /\ day < onDate => SetValue(key, place, day) = was[day][place][key]

\* A decision can be explained later: its gate names a version on file that says
\* what it was judged by, whoever else was minting or taking theirs back, and so
\* does the event, if the place had no rules of its own and nothing moved in
\* between.  One at a time, a new version means a change: no two that follow one
\* another say the same.
VersionsTell ==
    /\ \A e \in verdicts :
          /\ versions[e.gate] = [rules |-> e.judged, of |-> "all"]
          /\ ~e.apart => versions[e.event] = [rules |-> e.judged, of |-> "all"]
    /\ regime.atOnce = 1
        => \A n, m \in {i \in DOMAIN versions : versions[i].of # "none"} :
              n < m /\ (\A i \in n + 1 .. m - 1 : versions[i].of = "none")
                => versions[n].rules # versions[m].rules
=============================================================================
