------------------------------ MODULE Requests ------------------------------
(***************************************************************************)
(* One call of an HTTP client: UniFiClient.request, OPNsenseClient.request,*)
(* OmadaClient.request with its authenticate, and fetch_text for the feed, *)
(* whose answer load_feed_snapshot turns into a snapshot.  The other end   *)
(* is a queue of requests that it carries out or rejects when it likes,    *)
(* also after the client stopped waiting.                                  *)
(***************************************************************************)
EXTENDS FeedDecision

CONSTANTS
    Retries,   \* retries
    Payloads,  \* what the feed may publish
    Policies   \* invalid_entry_policy

ASSUME RetriesAssumption == Retries \in Nat \ {0}
ASSUME PayloadsAssumption == Payloads \subseteq Payload

Clients == {"unifi", "opnsense", "omada", "feed"}

(* Answers: "garbled" is no JSON or not an expected status, "busy" a       *)
(* status such as 429 or 503, "refused" another error status, "apiAuth"    *)
(* and "apiError" an Omada errorCode, "notText" a body of any status that  *)
(* is not UTF-8, "lateError" an error status whose body does not come,     *)
(* "cut" a protocol error of http.client.                                  *)
Rejections == {"unauthorized", "apiAuth"}
Done == {"ok", "garbled", "oversize", "busy", "refused", "apiError", "notText",
         "lateError", "cut"}
(* What the client sees when no answer arrives: URLError, or the timeout   *)
(* or reset of a connection that was open.                                 *)
Silence == {"unreachable", "late"}
Failures == {"auth", "network", "remote", "invalid", "escape"}

VARIABLES
    client, write,  \* whose call it is, and whether its method changes something
    isp, policy,    \* settings of the feed
    pc,             \* "send", "await" or "done"
    attempt,        \* number of the attempt
    authLeft,       \* auth_retry_remaining
    token,          \* access_token: "none", "old", or "new" in this call
    outcome,        \* "pending", "ok", or the class of the exception
    snapshot        \* what load_feed_snapshot returns

(* The other end.                                                          *)
VARIABLES
    inbox,    \* what it has not looked at: the current request, earlier ones
    reply,    \* its answer to that one, or "none"
    handled,  \* requests that it carried out, up to HandledBound
    payload   \* what the feed published

callVars == <<client, write, isp, policy>>
loopVars == <<pc, attempt, authLeft, token, outcome, snapshot>>
otherVars == <<inbox, reply, handled, payload>>
vars == <<callVars, loopVars, otherVars>>

EmptyPayload == [flag |-> "absent", data |-> <<>>]
HandledBound == 2

TypeOK ==
    /\ client \in Clients /\ write \in BOOLEAN
    /\ isp \in Isps \cup {AnyIsp} /\ policy \in Policies
    /\ pc \in {"send", "await", "done"}
    /\ attempt \in 1 .. Retries /\ authLeft \in 0 .. 1
    /\ token \in {"none", "old", "new"}
    /\ outcome \in Failures \cup {"pending", "ok"}
    /\ handled \in 0 .. HandledBound
    /\ inbox \subseteq {"current", "earlier"}
    /\ reply \in Done \cup Rejections \cup {"none"}

(* A driver's client starts without a token, or has one of an earlier call.*)
Init ==
    /\ client \in Clients /\ write \in BOOLEAN
    /\ client = "feed" => ~write
    /\ isp \in Isps \cup {AnyIsp} /\ policy \in Policies
    /\ client # "feed" => isp = AnyIsp /\ policy = CHOOSE p \in Policies : TRUE
    /\ token \in IF client = "omada" THEN {"none", "old"} ELSE {"none"}
    /\ pc = "send" /\ attempt = 1 /\ authLeft = 1
    /\ outcome = "pending" /\ snapshot = Invalid
    /\ inbox = {} /\ reply = "none" /\ handled = 0
    /\ payload = EmptyPayload

(* SAFE_RETRY_METHODS: a call that changes something gets one attempt.     *)
Attempts == IF write THEN 1 ELSE Retries

(* The answers that make the loop try again.                               *)
Repeatable ==
    CASE client = "omada" -> {"busy", "refused", "unreachable"}
      [] OTHER -> {"busy", "unreachable", "late"}

(* What the others, and the last of these, raise.  "escape" is no          *)
(* StopLigaError: the TimeoutError and the ValueErrors that OmadaClient    *)
(* does not catch (a body is decoded before the status is looked at), and  *)
(* a timeout while the body of an error is read, in the handler of that    *)
(* error.                                                                  *)
Raises(a) ==
    CASE a = "cut" -> "escape"
      [] client = "feed" -> IF a = "garbled" THEN "invalid" ELSE "network"
      [] a \in Rejections -> "auth"
      [] a = "lateError" -> "escape"
      [] client = "omada" /\ a \in {"late", "oversize", "notText"} -> "escape"
      [] a \in Silence -> "network"
      [] OTHER -> "remote"

(* The answers that make a difference to this client: fetch_text does not  *)
(* read the body of an error, and only OmadaClient decodes strictly.       *)
Possible(a) ==
    /\ a \in {"apiAuth", "apiError", "notText"} => client = "omada"
    /\ a = "lateError" => client # "feed"

-----------------------------------------------------------------------------
(* The loop                                                                *)

Return(o) == pc' = "done" /\ outcome' = o

(* OmadaClient.authenticate: a request of its own, which is not repeated.  *)
Authenticate ==
    /\ pc = "send" /\ client = "omada" /\ token = "none"
    /\ \/ token' = "new" /\ UNCHANGED <<pc, outcome>>
       \/ /\ \E o \in {"auth", "network", "remote", "escape"} : Return(o)
          /\ UNCHANGED token
    /\ UNCHANGED <<callVars, otherVars, attempt, authLeft, snapshot>>

Send ==
    /\ pc = "send"
    /\ client = "omada" => token # "none"
    /\ pc' = "await" /\ reply' = "none"
    /\ inbox' = {"current"} \cup {"earlier" : r \in inbox}
    /\ UNCHANGED <<callVars, attempt, authLeft, token, outcome, snapshot,
                   handled, payload>>

(* Mutants: the token is not forgotten, or its renewal is not counted.     *)
RenewTokenKept == authLeft' = authLeft - 1 /\ UNCHANGED token
RenewTokenAgain == token' = "none" /\ UNCHANGED authLeft

(* A rejected token is asked for again, once in an attempt.                *)
RenewToken == authLeft' = authLeft - 1 /\ token' = "none"

(* UniFiClient.request puts the body of an error into body_bytes, which    *)
(* the next attempt then sends; but only calls without a body of their own *)
(* come here.                                                              *)
NextAttempt == attempt' = attempt + 1 /\ authLeft' = 1

(* Mutant: an attempt too many.                                            *)
MayRepeatOffByOne(a) == a \in Repeatable /\ attempt <= Attempts

(* Mutant: silence is taken for a request that did not arrive.             *)
MayRepeatAfterSilence(a) ==
    a \in Repeatable /\ attempt < IF a \in Silence THEN Retries ELSE Attempts

MayRepeat(a) == a \in Repeatable /\ attempt < Attempts

Renews(a) == client = "omada" /\ a \in Rejections /\ authLeft > 0

(* The client has an answer, or stops waiting for one.                     *)
Receive(a) ==
    /\ pc = "await" /\ a # "ok"
    /\ IF Renews(a)
       THEN RenewToken /\ pc' = "send" /\ UNCHANGED <<attempt, outcome>>
       ELSE /\ UNCHANGED token
            /\ IF MayRepeat(a)
               THEN NextAttempt /\ pc' = "send" /\ UNCHANGED outcome
               ELSE Return(Raises(a)) /\ UNCHANGED <<attempt, authLeft>>
    /\ UNCHANGED <<callVars, snapshot, otherVars>>

ReceiveReply == reply # "none" /\ Receive(reply)
StopWaiting == reply = "none" /\ \E a \in Silence : Receive(a)

Succeed ==
    /\ pc = "await" /\ reply = "ok" /\ client # "feed"
    /\ Return("ok")
    /\ UNCHANGED <<callVars, attempt, authLeft, token, snapshot, otherVars>>

(* load_feed_snapshot: InvalidFeedError, or a snapshot.                    *)
ReadFeed ==
    /\ pc = "await" /\ reply = "ok" /\ client = "feed"
    /\ snapshot' = Decide(payload, isp, policy)
    /\ Return(IF snapshot'.valid THEN "ok" ELSE "invalid")
    /\ UNCHANGED <<callVars, attempt, authLeft, token, otherVars>>

-----------------------------------------------------------------------------
(* The other end                                                           *)

(* Its answer reaches a client that still waits for it.                    *)
Reply(r, a) == reply' = IF pc = "await" /\ r = "current" THEN a ELSE reply

CarryOut(r) ==
    /\ inbox' = inbox \ {r} /\ handled' = IF handled < HandledBound THEN handled + 1 ELSE handled
    /\ \E a \in Done : Possible(a) /\ Reply(r, a)
    /\ payload' \in IF client = "feed" /\ reply' = "ok" /\ reply # "ok"
                    THEN Payloads ELSE {payload}
    /\ UNCHANGED <<callVars, loopVars>>

(* It answers an error without doing anything.                             *)
Reject(r) ==
    /\ inbox' = inbox \ {r}
    /\ \E a \in Rejections \cup (Done \ {"ok"}) : Possible(a) /\ Reply(r, a)
    /\ UNCHANGED <<callVars, loopVars, handled, payload>>

Lose(r) ==
    /\ inbox' = inbox \ {r}
    /\ UNCHANGED <<callVars, loopVars, reply, handled, payload>>

LoopStep == Authenticate \/ Send \/ ReceiveReply \/ StopWaiting \/ Succeed \/ ReadFeed

Next == LoopStep \/ \E r \in inbox : CarryOut(r) \/ Reject(r) \/ Lose(r)

(* Every request has a timeout: the client does not wait for ever.         *)
Spec == Init /\ [][Next]_vars /\ WF_vars(LoopStep)

-----------------------------------------------------------------------------
(* Properties                                                              *)

(* The request loops of the three routers' clients: a call is what the     *)
(* drivers' models take it for.  A write is carried out at most once,      *)
(* whatever was lost, answered late or sent again with another token.      *)
Contract == INSTANCE Call WITH write <- write, handled <- handled, outcome <- outcome
CallIsHandledAsAsked == Contract!Spec

(* OmadaClient.request: it gives up for want of a valid token only if the  *)
(* token it was refused with was obtained by this very call.               *)
RejectedWithNewToken == client = "omada" /\ outcome = "auth" => token # "old"

(* Every client: a call ends, with a result or with an error.              *)
CallEnds == <>(pc = "done")

(* load_feed_snapshot: one more report of what the feed says already,      *)
(* wherever it stands, never lifts the block, changes no destination, and  *)
(* makes neither a good feed bad nor a bad one good.                       *)
ReportsNeverUnblock ==
    outcome \in {"ok", "invalid"} /\ client = "feed" /\ reply = "ok" =>
        \A i, k \in DOMAIN payload.data :
            LET more == Decide([payload EXCEPT !.data = InsertAt(@, k, payload.data[i])],
                               isp, policy)
            IN more = snapshot \/ more = [snapshot EXCEPT !.blocked = snapshot.valid]

(* load_feed_snapshot: the two readings of the history agree.  Where all   *)
(* entries speak of now, a block by the history names the addresses that   *)
(* caused it.                                                              *)
BlockNamesDestinations ==
    outcome = "ok" /\ client = "feed" /\ snapshot.blocked /\ payload.flag = "absent"
    /\ isp = AnyIsp /\ (\A i \in DOMAIN payload.data : Current(payload.data[i]))
        => {i \in Ips : Hero(payload.data).count[i] > 0} \subseteq snapshot.destinations
=============================================================================
