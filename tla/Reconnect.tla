----------------------------- MODULE Reconnect -----------------------------
(***************************************************************************)
(* The reconnect loop of oracle/src/listener.ts with its clock: how long   *)
(* the subscription that Listener breaks and restores at will is away.     *)
(*                                                                         *)
(* reachable says that the endpoint accepts a subscription.  A connection  *)
(* attempt is decided within a unit of time; a stream may break or end at  *)
(* any moment, and may outlive an endpoint that accepts no new one.        *)
(***************************************************************************)
EXTENDS Integers

CONSTANTS
    ReconnectBase, ReconnectMax,    \* RECONNECT_BASE and _MAX, in units of time
    MaxAttempt                      \* bound: the delay grows no more from here on

ASSUME ReconnectAssumption ==
    /\ ReconnectBase \in Nat \ {0} /\ ReconnectMax \in Nat
    /\ ReconnectBase <= ReconnectMax
    /\ MaxAttempt \in Nat /\ ReconnectMax <= ReconnectBase * 2^MaxAttempt

VARIABLES
    subscription,   \* where startSubscription is
    attempt,        \* its parameter, or that of the call the timer will make
    wait,           \* time until the timer fires
    reachable,      \* the endpoint accepts subscriptions
    gap,            \* history: time it has, with no stream
    since           \* history: time since the last connection attempt, up to
                    \* ReconnectBase

rvars == <<subscription, attempt, wait, reachable, gap, since>>

ReconnectInit ==
    /\ subscription = "Connecting"
    /\ attempt = 0
    /\ wait = 0
    /\ reachable \in BOOLEAN
    /\ gap = 0
    /\ since = 0

Lesser(m, n) == IF m <= n THEN m ELSE n

DelayUncapped(n) == ReconnectBase * 2^n
DelayLinear(n) == Lesser(ReconnectBase * n, ReconnectMax)
Delay(n) == Lesser(ReconnectBase * 2^n, ReconnectMax)

(* The stream is up: nothing is awaited but its end.                       *)
Connected ==
    /\ subscription = "Connecting" /\ reachable
    /\ subscription' = "Streaming"
    /\ gap' = 0
    /\ UNCHANGED <<attempt, wait, reachable, since>>

(* subscribe() or the write of the request fails, or the stream breaks:    *)
(* the catch clause.                                                       *)
Fails ==
    /\ subscription = "Streaming" \/ (subscription = "Connecting" /\ ~reachable)
    /\ subscription' = "Waiting"
    /\ wait' = Delay(attempt)
    /\ attempt' = Lesser(attempt + 1, MaxAttempt)
    /\ UNCHANGED <<reachable, gap, since>>

Ends ==
    /\ subscription = "Streaming"
    /\ subscription' = "Waiting"
    /\ wait' = Delay(attempt)
    /\ attempt' = 0
    /\ UNCHANGED <<reachable, gap, since>>

TimerFires ==
    /\ subscription = "Waiting" /\ wait = 0
    /\ subscription' = "Connecting"
    /\ since' = 0
    /\ UNCHANGED <<attempt, wait, reachable, gap>>

EndpointChanges ==
    /\ reachable' = ~reachable
    /\ gap' = 0
    /\ UNCHANGED <<subscription, attempt, wait, since>>

TimePasses ==
    /\ subscription = "Streaming" \/ (subscription = "Waiting" /\ wait > 0)
    /\ wait' = IF subscription = "Waiting" THEN wait - 1 ELSE wait
    /\ gap' = IF reachable /\ subscription # "Streaming" THEN gap + 1 ELSE gap
    /\ since' = Lesser(since + 1, ReconnectBase)
    /\ UNCHANGED <<subscription, attempt, reachable>>

ReconnectNext ==
    \/ Connected
    \/ Fails
    \/ Ends
    \/ TimerFires
    \/ EndpointChanges
    \/ TimePasses

ReconnectSpec == ReconnectInit /\ [][ReconnectNext]_rvars

-----------------------------------------------------------------------------
(* However long the endpoint was away and however often streams broke, the *)
(* listener is without a stream for at most the cap once the endpoint      *)
(* accepts again; the attempt may survive a working stream.                *)
BackWithinCap == gap <= ReconnectMax

(* Two connection attempts are at least the base delay apart, whatever     *)
(* mixture of failures and clean ends lies between them.                   *)
NeverHammers ==
    [][ subscription # "Connecting" /\ subscription' = "Connecting" =>
          since >= ReconnectBase ]_rvars
=============================================================================
