--------------------------- MODULE MCContactRelay ---------------------------
(* An instance of ContactRelay for TLC: the windows keep the order of the  *)
(* real ones, and the limits leave room to be overrun. A second is two     *)
(* ticks, so that a wait that is told may leave a fraction of one out.     *)
EXTENDS ContactRelay, TLC

CONSTANTS r1, r2, c1, a1,
    MaxMixedTime    \* bound: when other keys or a restart must have done

Burst  == [max_events |-> 1, window_seconds |-> 1]
Hourly == [max_events |-> 2, window_seconds |-> 3]
PerIp  == [max_events |-> 1, window_seconds |-> 1]

\* Only the contact form is used, since the process first started.
ContactOnly ==
    restarts = 0 /\ \A c \in AnalyticsClient : accepted[AnalyticsKey(c)] = <<>>

\* The contact form alone is followed to the end of the clock. With another
\* key or a restart each key has an event less, and less time.
Bounded ==
    ContactOnly
      \/ /\ now <= MaxMixedTime
         /\ \A k \in Key : Len(accepted[k]) < MaxEvents

Symmetry == Permutations(Request)
=============================================================================
