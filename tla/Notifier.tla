------------------------------ MODULE Notifier ------------------------------
(***************************************************************************)
(* _send_notification_message: one message, to every configured provider   *)
(* in turn.  Each gets up to Retries POSTs (_post_json); a provider that   *)
(* failed does not stop the others.  Report begins and ends a delivery.    *)
(***************************************************************************)
EXTENDS Naturals, Sequences

CONSTANTS
    Order,   \* the configured providers, as a sequence
    Retries  \* notification_retries

ASSUME RetriesAssumption == Retries \in Nat \ {0}
ASSUME OrderAssumption ==   \* each provider has one place
    /\ Len(Order) \in Nat \ {0}
    /\ \A i, j \in 1 .. Len(Order) : Order[i] = Order[j] => i = j

Providers == {Order[i] : i \in 1 .. Len(Order)}
NoIds == [p \in Providers |-> 0]

VARIABLES
    turn,      \* place in Order of the provider under way; 0 between deliveries
    attempt,   \* number of its POST
    failures,  \* the providers that failed
    fresh      \* fresh[p]: the id that p returned for this message, or 0

(* History: what the providers saw of the announcements of a change.       *)
VARIABLES
    tried,     \* tried[p]: announcements that were posted to p
    told,      \* told[p]: copies that p accepted, but for those whose answer
               \*          was lost
    given      \* given[p]: the last id that p returned

sendVars == <<turn, attempt, failures, fresh>>
seenVars == <<tried, told, given>>
notifierVars == <<sendVars, seenVars>>

Done == Len(Order) + 1

NotifierTypeOK ==
    /\ turn \in 0 .. Done /\ attempt \in 1 .. Retries
    /\ failures \subseteq Providers
    /\ \A f \in {fresh, tried, told, given} : f \in [Providers -> Nat]

NotifierInit ==
    /\ turn = 0 /\ attempt = 1 /\ failures = {} /\ fresh = NoIds
    /\ tried = NoIds /\ told = NoIds /\ given = NoIds

Current == Order[turn]
Posting == turn \in 1 .. Len(Order)

BeginSend ==
    /\ turn = 0 /\ turn' = 1
    /\ UNCHANGED <<attempt, failures, fresh, seenVars>>

EndSend ==
    /\ turn' = 0 /\ attempt' = 1 /\ failures' = {} /\ fresh' = NoIds

(* Numbers of an announcement are positive; the startup message, of which  *)
(* nothing is kept, has number 0.                                          *)
Count(f, m) == IF m = 0 THEN f ELSE [f EXCEPT ![Current] = @ + 1]

Tried(m) == tried' = IF attempt = 1 THEN Count(tried, m) ELSE tried

NextProvider == turn' = turn + 1 /\ attempt' = 1

(* Mutant: the first failure is raised at once.                            *)
ProviderFailsAll == turn' = Done /\ attempt' = 1 /\ failures' = failures \cup {Current}

(* The provider failed for good, after as many attempts as it gets.        *)
ProviderFails == NextProvider /\ failures' = failures \cup {Current}

(* Mutant: one attempt too many.                                           *)
RetryOrFailOffByOne ==
    IF attempt <= Retries
    THEN attempt' = attempt + 1 /\ UNCHANGED <<turn, failures>>
    ELSE ProviderFails

(* A failure that _post_json repeats.                                      *)
RetryOrFail ==
    IF attempt < Retries
    THEN attempt' = attempt + 1 /\ UNCHANGED <<turn, failures>>
    ELSE ProviderFails

(* Mutant: an answer without an id is taken for a failure.                 *)
PostAcceptedOrRepeated(m) ==
    /\ Posting
    /\ \/ /\ NextProvider
          /\ fresh' = [fresh EXCEPT ![Current] = m]
          /\ given' = IF m = 0 THEN given ELSE [given EXCEPT ![Current] = m]
          /\ UNCHANGED failures
       \/ RetryOrFail /\ UNCHANGED <<fresh, given>>
    /\ told' = Count(told, m) /\ Tried(m)

(* An answer of 2xx, with a usable id or without: both are a delivery.     *)
PostAccepted(m) ==
    /\ Posting
    /\ NextProvider
    /\ told' = Count(told, m) /\ Tried(m)
    /\ \/ /\ fresh' = [fresh EXCEPT ![Current] = m]
          /\ given' = IF m = 0 THEN given ELSE [given EXCEPT ![Current] = m]
       \/ UNCHANGED <<fresh, given>>
    /\ UNCHANGED failures

(* It does not get there, or its answer is late or lost, or the answer is  *)
(* a status that is repeated, or one that is not.                          *)
PostFails(m) ==
    /\ Posting
    /\ RetryOrFail \/ ProviderFails
    /\ Tried(m)
    /\ UNCHANGED <<fresh, told, given>>

(* The answer is cut short: http.client.IncompleteRead, which nothing      *)
(* catches.                                                                *)
PostAnswerCut(m) ==
    /\ Posting
    /\ EndSend
    /\ told' = Count(told, m) /\ Tried(m)
    /\ UNCHANGED given
=============================================================================
