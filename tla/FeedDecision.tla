---------------------------- MODULE FeedDecision ----------------------------
(***************************************************************************)
(* What load_feed_snapshot makes of a status payload: the destinations     *)
(* (extract_hayahora_active_ips) and the block status                      *)
(* (parse_status_payload_value).  Both read the same history, by rules of  *)
(* their own.                                                              *)
(***************************************************************************)
EXTENDS Naturals, Sequences, FiniteSets, SequencesExt

CONSTANTS
    Ips,              \* addresses, in their normal form
    Sentinels,        \* HAYAHORA_HERO_SENTINEL_IPS
    MinMatches,       \* HAYAHORA_HERO_MIN_PROVIDER_MATCHES
    MinConfirmed,     \* HAYAHORA_HERO_MIN_CONFIRMED_IPS
    MaxDestinations,  \* max_destinations
    Isps,             \* normalized labels of providers
    AnyIsp            \* hayahora_isp is not set

ASSUME IpsAssumption ==
    IsFiniteSet(Ips) /\ {"invalid", "none"} \cap Ips = {} /\ Sentinels \subseteq Ips
ASSUME ThresholdsAssumption == {MinMatches, MinConfirmed, MaxDestinations} \subseteq Nat

(* An entry of "data"; its ip may be no address ("invalid"), or absent or  *)
(* no text ("none"), and so may be its provider.  A change has a state,    *)
(* which may be one that _truthy_state refuses ("odd") or be missing       *)
(* ("none"), and is not older than the lookback window, or is.             *)
Change == [state : {"on", "off", "odd", "none"}, recent : BOOLEAN]
Entry == [ip : Ips \cup {"invalid", "none"}, hero : BOOLEAN,
          isp : Isps \cup {"none"}, changes : Seq(Change)]

(* A payload may have isBlocked, blocked or state: its flag.               *)
Payload == [flag : {"absent", "on", "off", "odd"}, data : Seq(Entry)]

Invalid == [blocked |-> FALSE, destinations |-> {}, valid |-> FALSE]
Snapshot(b, ips) == [blocked |-> b, destinations |-> ips, valid |-> TRUE]

-----------------------------------------------------------------------------
(* _parse_hayahora_status_payload                                          *)

HasState(c) == c.state # "none"

(* The last change that has a state, wherever it is.                       *)
LatestState(e) ==
    LET k == SelectLastInSeq(e.changes, HasState) IN
    IF k = 0 THEN "none" ELSE e.changes[k].state

(* The loop body: an odd state raises, whatever the address is, but not    *)
(* without one.                                                            *)
CountEntry(acc, e) ==
    IF acc.raised \/ ~e.hero \/ e.ip = "none" THEN acc
    ELSE IF LatestState(e) = "odd" THEN [acc EXCEPT !.raised = TRUE]
    ELSE IF LatestState(e) = "on" /\ e.ip \in Ips
    THEN [acc EXCEPT !.count[e.ip] = @ + 1]
    ELSE acc

Hero(data) ==
    FoldLeft(CountEntry, [count |-> [i \in Ips |-> 0], raised |-> FALSE], data)

(* Mutant: a count beyond the threshold is not one that reaches it.        *)
HeroBlockedExactly(count) ==
    \/ Cardinality({i \in Ips : count[i] = MinMatches}) >= MinConfirmed
    \/ Sentinels \subseteq {i \in Ips : count[i] > 0}

(* Enough addresses that enough entries report, or both sentinels.         *)
HeroBlocked(count) ==
    \/ Cardinality({i \in Ips : count[i] >= MinMatches}) >= MinConfirmed
    \/ Sentinels \subseteq {i \in Ips : count[i] > 0}

-----------------------------------------------------------------------------
(* extract_hayahora_active_ips                                             *)

(* Mutant: the first change decides.                                       *)
DecidingChangeFirst(e) == Head(e.changes)

(* Only the last change counts here, and only if it has a state.           *)
DecidingChange(e) == Last(e.changes)

(* available_isps: the providers that the feed names.                      *)
Provider(e) == {e.isp} \ {"none"}
NoteIsp(acc, e) == [acc EXCEPT !.isps = @ \cup Provider(e)]

ActiveNow(e) ==
    /\ e.changes # <<>>
    /\ DecidingChange(e).state = "on" /\ DecidingChange(e).recent

Odd(e) == e.changes # <<>> /\ DecidingChange(e).state = "odd"

(* The loop body for an entry of the provider asked for.                   *)
AddDestination(acc, e, policy) ==
    IF Odd(e) THEN [acc EXCEPT !.raised = TRUE]
    ELSE IF ~ActiveNow(e) \/ e.ip = "none" THEN acc
    ELSE IF e.ip = "invalid" THEN [acc EXCEPT !.raised = (policy = "fail")]
    ELSE [acc EXCEPT !.ips = @ \cup {e.ip},
                     !.raised = Cardinality(acc.ips \cup {e.ip}) > MaxDestinations]

Visit(acc, e, isp, policy) ==
    IF acc.raised THEN acc
    ELSE IF isp \in {AnyIsp, e.isp} THEN AddDestination(NoteIsp(acc, e), e, policy)
    ELSE NoteIsp(acc, e)

Extract(data, isp, policy) ==
    LET Body(acc, e) == Visit(acc, e, isp, policy)
        end == FoldLeft(Body, [ips |-> {}, isps |-> {}, raised |-> FALSE], data)
    IN [end EXCEPT !.raised = @ \/ isp \notin end.isps \cup {AnyIsp}]

-----------------------------------------------------------------------------
(* load_feed_snapshot: the destinations first, then the status; an         *)
(* explicit flag hides the history.                                        *)
Decide(p, isp, policy) ==
    LET found == Extract(p.data, isp, policy)
        hero == Hero(p.data)
    IN IF found.raised \/ p.flag = "odd" \/ (p.flag = "absent" /\ hero.raised) THEN Invalid
       ELSE Snapshot(IF p.flag = "absent" THEN HeroBlocked(hero.count) ELSE p.flag = "on",
                     found.ips)

-----------------------------------------------------------------------------
(* For the properties                                                      *)

(* Every entry says last, with a recent change, what it says at all.       *)
Current(e) == e.changes # <<>> /\ Last(e.changes).state # "none" /\ Last(e.changes).recent
=============================================================================
