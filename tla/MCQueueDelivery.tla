--------------------------- MODULE MCQueueDelivery ---------------------------
(***************************************************************************)
(* Values for the constants of QueueDelivery on small instances.           *)
(***************************************************************************)
EXTENDS QueueDelivery, TLC

CONSTANTS e1, e2, b1, b2, b3, s1, s2,
          Second   \* the Herdr events of session s2

MCEventIds == Legacy \cup Requests \cup Turns \cup Hints \cup Tests
MCSourceOf == [i \in MCEventIds |-> IF i \in Hints \cup Tests THEN "herdr" ELSE "codex"]
MCSessionOf == [i \in MCEventIds |-> IF i \notin Hints \cup Tests THEN NoSession
                                    ELSE IF i \in Second THEN s2 ELSE s1]

\* Endpoints spelled the way url.URL prints them.
MCStored == (e1 :> b1) @@ (e2 :> b2)
MCCompared == MCStored

\* Events of one kind and session are interchangeable.
MCSymmetry == Permutations(Turns) \cup Permutations(Hints \ Second)

MCOneStored == e1 :> b1
MCOneCompared == MCOneStored

\* "HTTPS://host" for e2: ConfigureBackend stores "https://host" (b2), while
\* NextForBackend compares with the spelling (b3).
MCSpelledStored == e2 :> b2
MCSpelledCompared == e2 :> b3
==============================================================================
