------------------------------- MODULE SignIn -------------------------------
(***************************************************************************)
(* One interactive sign-in of the CLI: SignIn of internal/login/session.go *)
(* with Loopback (loopback.go), StartDevice and PollDevice (device.go).    *)
(*                                                                         *)
(* Around it move the human (approves, denies, presses Ctrl-C or leaves),  *)
(* browser tabs (of this sign-in and of earlier ones on the same port),    *)
(* the issuer, and the clock, in units of five seconds.                    *)
(***************************************************************************)
EXTENDS Integers

CONSTANTS Modes,     \* subset of {"auto", "browser", "device"}
          Wait,      \* how long to wait for the browser
          Lifetime,  \* of a device code
          Announced, \* polling intervals issuers announce; 0 for none
          None

ASSUME SignInAssumption ==
  /\ Modes \subseteq {"auto", "browser", "device"} /\ Announced \subseteq Nat
  /\ Wait \in Nat /\ Lifetime \in Nat

VARIABLES
  mode, pc, outcome,
  results,      \* channel of capacity 1 from the callback handler
  res,          \* the callback that was taken from it
  left,         \* time before the wait for the browser ends
  interval,     \* polling interval
  pause,        \* time before the next poll
  ttl,          \* time before the device code expires; -1 afterwards
  interrupted,  \* Ctrl-C
  asks, rest    \* issuer: the pause it wants, and what is left of it

device == <<interval, pause, ttl, asks, rest>>
browser == <<results, res, left>>
sivars == <<mode, pc, outcome, browser, device, interrupted>>

DefaultInterval == 1
SlowDown == 1

\* A callback: which sign-in its state belongs to, and what it brings.
Callback == [of : {"ours", "other"}, brings : {"code", "nothing", "denied", "error"}]

SIInit ==
  /\ mode \in Modes /\ pc = "start" /\ outcome = None
  /\ results = None /\ res = None /\ left = Wait
  /\ interval = DefaultInterval /\ pause = 0 /\ ttl = Lifetime
  /\ interrupted = FALSE
  /\ asks = DefaultInterval /\ rest = 0
-----------------------------------------------------------------------------
Ends(o) == pc' = "done" /\ outcome' = o

Goes(l) == pc' = l /\ UNCHANGED outcome

\* loopbackWithWait, SignIn: only a wait that ran out, or a port that could not
\* be had, is followed by the device grant.
FallsBack(why) ==
  IF mode = "browser" THEN Ends(why) ELSE Goes("device")

\* FetchEndpoints, then Loopback or StartDevice.
Start ==
  /\ pc = "start"
  /\ Ends("error") \/ Goes(IF mode = "device" THEN "device" ELSE "listen")
  /\ UNCHANGED <<mode, browser, device, interrupted>>

\* Loopback up to the select: a port, the URL on screen, the server.
Listen ==
  /\ pc = "listen"
  /\ \/ Ends("error") \* no authorization endpoint
     \/ FallsBack("unavailable")
     \/ Goes("wait")
  /\ UNCHANGED <<mode, browser, device, interrupted>>

\* The handler of the redirect path: the page, then the channel if it has room.
\* It is served until Loopback returns.
Browser(cb) ==
  /\ pc \in {"wait", "judge", "exchange"}
  /\ results = None
  /\ results' = cb
  /\ UNCHANGED <<mode, pc, outcome, res, left, device, interrupted>>

\* select: a case that is ready, any of them.
TakeResult ==
  /\ pc = "wait"
  /\ results # None
  /\ res' = results
  /\ results' = None
  /\ Goes("judge")
  /\ UNCHANGED <<mode, left, device, interrupted>>

TimesOut ==
  /\ pc = "wait"
  /\ \/ interrupted /\ Ends("cancelled")
     \/ left = 0 /\ FallsBack("timeout")
  /\ UNCHANGED <<mode, browser, device, interrupted>>

\* The checks, and the code on its way to the token endpoint.
Judge ==
  /\ pc = "judge"
  /\ CASE res.brings = "denied" -> Ends("denied")
       [] res.brings \in {"error", "nothing"} -> Ends("error")
       [] res.of # "ours" -> Ends("mismatch")
       [] OTHER -> Goes("exchange")
  /\ UNCHANGED <<mode, browser, device, interrupted>>

\* The answer of the token endpoint; no context bounds this call, the client's
\* own timeout does.
Exchange ==
  /\ pc = "exchange"
  /\ Ends("signedin") \/ Ends("error")
  /\ UNCHANGED <<mode, browser, device, interrupted>>
-----------------------------------------------------------------------------
\* StartDevice, the URL on screen, and PollDevice up to its loop.
StartDevice ==
  /\ pc = "device"
  /\ \/ Ends("error") /\ UNCHANGED device
     \/ /\ \E i \in Announced :
             LET wanted == IF i = 0 THEN DefaultInterval ELSE i IN
             /\ interval' = wanted /\ pause' = wanted
             /\ asks' = wanted /\ rest' = wanted
        /\ ttl' = Lifetime
        /\ Goes("pause")
  /\ UNCHANGED <<mode, browser, interrupted>>

\* Mutation: the loop has no deadline.
PollForever ==
  /\ pc = "pause"
  /\ \/ interrupted /\ Ends("cancelled")
     \/ pause = 0 /\ Goes("post")
  /\ UNCHANGED <<mode, browser, device, interrupted>>

\* select, then the deadline.
Poll ==
  /\ pc = "pause"
  /\ \/ interrupted /\ Ends("cancelled")
     \/ pause = 0 /\ ttl < 0 /\ Ends("expired")
     \/ pause = 0 /\ ttl >= 0 /\ Goes("post")
  /\ UNCHANGED <<mode, browser, device, interrupted>>

\* Another round of the loop.
Waits(i) == interval' = i /\ pause' = i /\ Goes("pause") /\ UNCHANGED ttl

\* Mutation: slow_down is taken for authorization_pending.
PolledTooEager ==
  /\ pc = "post"
  /\ \/ Ends("signedin") /\ UNCHANGED device
     \/ Ends("denied") /\ UNCHANGED device
     \/ Ends("expired") /\ UNCHANGED device
     \/ Ends("error") /\ UNCHANGED device
     \/ Waits(interval) /\ rest' = asks /\ UNCHANGED asks
     \/ /\ Waits(interval)
        /\ asks' = asks + SlowDown /\ rest' = asks'
  /\ UNCHANGED <<mode, browser, interrupted>>

\* The answer to a poll: a token, access_denied, expired_token, another error
\* or none, authorization_pending, slow_down.
Polled ==
  /\ pc = "post"
  /\ \/ Ends("signedin") /\ UNCHANGED device
     \/ Ends("denied") /\ UNCHANGED device
     \/ Ends("expired") /\ UNCHANGED device
     \/ Ends("error") /\ UNCHANGED device
     \/ Waits(interval) /\ rest' = asks /\ UNCHANGED asks
     \/ /\ Waits(interval + SlowDown)
        /\ asks' = asks + SlowDown /\ rest' = asks'
  /\ UNCHANGED <<mode, browser, interrupted>>
-----------------------------------------------------------------------------
Down(n) == IF n > 0 THEN n - 1 ELSE 0

\* Time passes, in a wait or while a request is under way.
Tick ==
  /\ \/ pc = "wait" /\ left > 0
     \/ pc = "pause" /\ pause > 0
     \/ pc = "post" /\ ttl >= 0
  /\ left' = IF pc = "wait" THEN Down(left) ELSE left
  /\ pause' = IF pc = "pause" THEN Down(pause) ELSE pause
  /\ ttl' = IF pc \in {"pause", "post"} /\ ttl >= 0 THEN ttl - 1 ELSE ttl
  /\ rest' = Down(rest)
  /\ UNCHANGED <<mode, pc, outcome, results, res, interval, interrupted, asks>>

Interrupt ==
  /\ pc # "done"
  /\ ~interrupted
  /\ interrupted' = TRUE
  /\ UNCHANGED <<mode, pc, outcome, browser, device>>

\* What the program does on its own.
Step ==
  \/ Start \/ Listen \/ TakeResult \/ TimesOut \/ Judge \/ Exchange
  \/ StartDevice \/ Poll \/ Polled

SINext == Step \/ Tick \/ Interrupt \/ \E cb \in Callback : Browser(cb)

SISpec == SIInit /\ [][SINext]_sivars

\* The program is scheduled, timers fire, and a request is answered or given up
\* by the client's own timeout; nothing is assumed of the human.
SIFairSpec == SISpec /\ WF_sivars(Step) /\ WF_sivars(Tick)
-----------------------------------------------------------------------------
(* Properties                                                              *)

SITypeOK ==
  /\ mode \in Modes
  /\ pc \in {"start", "listen", "wait", "judge", "exchange", "device", "pause",
             "post", "done"}
  /\ outcome \in {None, "signedin", "denied", "cancelled", "timeout", "unavailable",
                  "mismatch", "expired", "error"}
  /\ (outcome = None) = (pc # "done")
  /\ {results, res} \subseteq Callback \cup {None}
  /\ left \in 0 .. Wait
  /\ {interval, pause, asks, rest} \subseteq Nat
  /\ ttl \in -1 .. Lifetime

\* No poll comes earlier than the issuer wants it, slow_down included: "it never
\* hammers Keycloak".
NeverHammers == [][pc = "pause" /\ pc' = "post" => rest = 0]_sivars

\* The sign-in ends, whatever the human and the browser do.
SignInEnds == <>(pc = "done")
=============================================================================
