---------------------------- MODULE ContactRelay ----------------------------
(***************************************************************************)
(* The contact form's route. A submission is checked against the rate      *)
(* limits of its address, handed to an SMTP server in a worker thread, and *)
(* recorded against the limits once the thread has reported success:       *)
(* check, await, record. Meanwhile the analytics route checks and records  *)
(* its own keys in the same table. Nothing is stored: a restart forgets    *)
(* the table and the submissions in flight.                                *)
(*                                                                         *)
(* The form is configured (else the route answers 503 and does nothing).   *)
(***************************************************************************)
EXTENDS RateLimiter

CONSTANTS
    Request,                \* concurrent submissions
    ContactClient,          \* addresses that submit the form
    AnalyticsClient,        \* addresses that send analytics events
    CONTACT_BURST, CONTACT_HOURLY, ANALYTICS_PER_IP,
    MaxTime,                \* bound: the clock stops here
    MaxEvents,              \* bound: events recorded for a key
    MaxRestarts             \* bound: restarts of the backend in a behaviour

ContactKey(c) == <<"contact", c>>
AnalyticsKey(c) == <<"analytics", c>>
Key == {ContactKey(c) : c \in ContactClient}
          \cup {AnalyticsKey(c) : c \in AnalyticsClient}

ASSUME RelayAssumption ==
    /\ {CONTACT_BURST, CONTACT_HOURLY, ANALYTICS_PER_IP} \subseteq RateLimit
    /\ CONTACT_BURST.window_seconds <= CONTACT_HOURLY.window_seconds
    /\ MaxTime \in Nat \ {0}
    /\ MaxEvents \in Nat
    /\ MaxRestarts \in Nat
    /\ IsFiniteSet(Request)
    /\ IsFiniteSet(Key)

VARIABLES
    phase,
    client,     \* the address of each request, or of the slot's last one
    delivered,  \* whether the SMTP server took the request's message
    accepted,   \* history: stamps recorded for each key since the start
    restarts

requestVars == <<phase, client, delivered>>
vars == <<now, hits, requestVars, accepted, restarts>>

ContactLimits == {CONTACT_BURST, CONTACT_HOURLY}
Limits(k) == IF k[1] = "contact" THEN ContactLimits ELSE {ANALYTICS_PER_IP}

\* The answers: 200 "sent" (to a visitor, to a bot), 429, 422 and 502.
Answered == {"idle", "sent", "trapped", "limited", "rejected", "undelivered"}
Phase == Answered \cup {"sending", "closing"}

InFlight(r) == phase[r] \notin Answered

TypeOK ==
    /\ now \in 1..MaxTime
    /\ DOMAIN hits \subseteq Key
    /\ \A k \in DOMAIN hits : hits[k] \in Seq(1..MaxTime)
    /\ phase \in [Request -> Phase]
    /\ client \in [Request -> ContactClient]
    /\ delivered \in [Request -> BOOLEAN]
    /\ accepted \in [Key -> Seq(1..MaxTime)]
    /\ restarts \in 0..MaxRestarts

Init ==
    /\ now = 1
    /\ hits = [k \in {} |-> <<>>]
    /\ phase = [r \in Request |-> "idle"]
    /\ \E c \in ContactClient : client = [r \in Request |-> c]
    /\ delivered = [r \in Request |-> FALSE]
    /\ accepted = [k \in Key |-> <<>>]
    /\ restarts = 0

\* Room for one more event of k within the bound.
Room(k) ==
    Len(accepted[k])
      + Cardinality({r \in Request : InFlight(r) /\ ContactKey(client[r]) = k})
        < MaxEvents

\* An event of k is recorded in h.
Record(h, k) ==
    /\ hits' \in Recorded(h, k)
    /\ accepted' = [accepted EXCEPT ![k] = Append(@, now)]

-----------------------------------------------------------------------------
(* submit_contact_message                                                  *)

\* Up to its first await the route runs in one go: the check, the honeypot,
\* which is answered as a success and counted, and the test of the headers,
\* which is not counted.
Submit(r, c) ==
    LET k == ContactKey(c)
        h == Checked(hits, k, ContactLimits) IN
    /\ ~InFlight(r)
    /\ client' = [client EXCEPT ![r] = c]
    /\ delivered' = [delivered EXCEPT ![r] = FALSE]
    /\ \/ /\ Refused(hits, k, ContactLimits)
          /\ phase' = [phase EXCEPT ![r] = "limited"]
          /\ hits' = h
          /\ accepted' = accepted
       \/ /\ ~Refused(hits, k, ContactLimits)
          /\ Room(k)
          /\ phase' = [phase EXCEPT ![r] = "trapped"]
          /\ Record(h, k)
       \/ /\ ~Refused(hits, k, ContactLimits)
          /\ \/ phase' = [phase EXCEPT ![r] = "rejected"]
             \/ Room(k) /\ phase' = [phase EXCEPT ![r] = "sending"]
          /\ hits' = h
          /\ accepted' = accepted
    /\ UNCHANGED <<now, restarts>>

\* Mutant: an exception of the thread is swallowed.
SwallowFailure(r) ==
    /\ phase[r] = "sending"
    /\ phase' = [phase EXCEPT ![r] = "sent"]
    /\ Record(hits, ContactKey(client[r]))
    /\ UNCHANGED <<now, client, delivered, restarts>>

\* In the worker thread: the server takes the message ...
Deliver(r) ==
    /\ phase[r] = "sending"
    /\ phase' = [phase EXCEPT ![r] = "closing"]
    /\ delivered' = [delivered EXCEPT ![r] = TRUE]
    /\ UNCHANGED <<now, hits, client, accepted, restarts>>

\* ... or, somewhere on the way to that, something fails.
DeliveryFails(r) ==
    /\ phase[r] = "sending"
    /\ phase' = [phase EXCEPT ![r] = "undelivered"]
    /\ UNCHANGED <<now, hits, client, delivered, accepted, restarts>>

\* After the message was taken, the server's last replies may still be lost:
\* send_message() or the quit() of the finally clause raises.
CloseFails(r) ==
    /\ phase[r] = "closing"
    /\ phase' = [phase EXCEPT ![r] = "undelivered"]
    /\ UNCHANGED <<now, hits, client, delivered, accepted, restarts>>

\* The await is over: the submission is recorded.
RecordSent(r) ==
    /\ phase[r] = "closing"
    /\ phase' = [phase EXCEPT ![r] = "sent"]
    /\ Record(hits, ContactKey(client[r]))
    /\ UNCHANGED <<now, client, delivered, restarts>>

-----------------------------------------------------------------------------

\* The analytics route checks and, if it goes on, records at once.
AnalyticsEvent(c) ==
    LET k == AnalyticsKey(c)
        h == Checked(hits, k, {ANALYTICS_PER_IP}) IN
    /\ IF Refused(hits, k, {ANALYTICS_PER_IP})
         THEN hits' = h /\ accepted' = accepted
         ELSE Room(k) /\ Record(h, k)
    /\ UNCHANGED <<now, requestVars, restarts>>

\* The table is gone, and so are the submissions in flight; a message that
\* the server has taken stays taken.
Restart ==
    /\ restarts < MaxRestarts
    /\ restarts' = restarts + 1
    /\ hits' = [k \in {} |-> <<>>]
    /\ accepted' = [k \in Key |-> <<>>]
    /\ phase' = [r \in Request |-> IF InFlight(r) THEN "idle" ELSE phase[r]]
    /\ UNCHANGED <<now, client, delivered>>

Tick ==
    /\ now < MaxTime
    /\ now' = now + 1
    /\ UNCHANGED <<hits, requestVars, accepted, restarts>>

Next ==
    \/ \E r \in Request :
          \/ \E c \in ContactClient : Submit(r, c)
          \/ Deliver(r) \/ DeliveryFails(r) \/ CloseFails(r) \/ RecordSent(r)
    \/ \E c \in AnalyticsClient : AnalyticsEvent(c)
    \/ Restart
    \/ Tick

Spec == Init /\ [][Next]_vars

-----------------------------------------------------------------------------
(* Properties.                                                             *)

\* The places in s of the stamps in the window of limit that begins at t.
Within(s, limit, t) ==
    {i \in DOMAIN s : t <= s[i] /\ s[i] < t + Window(limit)}

\* The limits under concurrency: no window of either limit holds more recorded
\* submissions of an address than the limit and, beyond it, those in flight
\* when the limit was reached, unless the address was forgotten because as
\* many others as the table holds were recorded since the window began.
LimitsWithConcurrency ==
    \A c \in ContactClient, l \in ContactLimits, t \in 1..MaxTime :
       \/ Cardinality(Within(accepted[ContactKey(c)], l, t))
             <= l.max_events + Cardinality(Request) - 1
       \/ Cardinality({k \in Key \ {ContactKey(c)} : LastStamp(accepted[k]) >= t})
             >= MAX_TRACKED_CLIENTS

\* Forgetting is safe: an address's latest event is forgotten only if as
\* many others as the table holds were recorded since.
ForgetsOnlyIdle ==
    \A k \in Key :
        LET last == LastStamp(accepted[k]) IN
        \/ accepted[k] = <<>>
        \/ \A l \in Limits(k) : last <= now - Window(l)
        \/ LastStamp(Stamps(hits, k)) = last
        \/ Cardinality({j \in Key \ {k} : LastStamp(accepted[j]) >= last})
              >= MAX_TRACKED_CLIENTS

\* Memory is bounded by the keys that have stamps: whatever else the table
\* holds was only ever checked.
TrackedBounded ==
    Cardinality({k \in DOMAIN hits : hits[k] # <<>>}) <= MAX_TRACKED_CLIENTS

\* A refused submission does not extend its own penalty: an address is
\* refused only if a submission of it was accepted within the longer window.
RefusedOnlyAfterAccepted ==
    [][\A r \in Request :
          phase[r] # "limited" /\ phase'[r] = "limited"
             => LastStamp(accepted[ContactKey(client'[r])])
                   > now - Window(CONTACT_HOURLY)]_vars

\* The limit that a refusal is told from: the first that is reached.
Refusing(s) ==
    IF Exceeded(s, CONTACT_BURST, now) THEN CONTACT_BURST ELSE CONTACT_HOURLY

\* The Retry-After of a refusal is right to within the second that its
\* truncation costs: with nothing recorded in the meantime, the limit that
\* refused a caller clears less than a second after the wait that it was told,
\* unless submissions in flight together have overrun that limit, and it does
\* not clear before the wait is over, unless the wait was raised to the one
\* second that is the least it says.
WaitClearsLimit ==
    [][\A r \in Request :
          phase[r] # "limited" /\ phase'[r] = "limited" =>
            LET s == hits'[ContactKey(client'[r])]
                first == Refusing(s)
                told == RetryAfter(s, first) IN
            /\ Cardinality(Recent(s, first, now)) = first.max_events
                  => ~Exceeded(s, first, now + (told + 1) * TicksPerSecond - 1)
            /\ told > 1
                  => Exceeded(s, first, now + told * TicksPerSecond - 1)]_vars

\* No message is lost silently: a visitor who is told "sent" has a message
\* in the owner's inbox.
SentIsDelivered == \A r \in Request : phase[r] = "sent" => delivered[r]

=============================================================================
