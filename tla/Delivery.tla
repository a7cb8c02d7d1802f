------------------------------ MODULE Delivery ------------------------------
(***************************************************************************)
(* What a forwarder promises whoever calls Submit, with nothing said of    *)
(* buffers, goroutines, tickers or locks: a sample is kept until it is     *)
(* discarded or goes out in one request, it goes out at most once, only    *)
(* what went out can be stored, and success is reported only of what was   *)
(* stored.  There is no retry: a request that is lost stays lost.          *)
(***************************************************************************)
EXTENDS Naturals

VARIABLES
  accepted,  \* samples accepted so far; sample n is the nth accepted
  kept,      \* samples neither discarded nor sent
  requests,  \* requests on their way to the backend
  stored,    \* samples the backend stored
  confirmed  \* samples reported as delivered

vars == <<accepted, kept, requests, stored, confirmed>>

Init ==
  /\ accepted = 0
  /\ kept = {} /\ requests = {} /\ stored = {} /\ confirmed = {}

(* Samples come in; how many together is the caller's affair. *)
Accept ==
  /\ accepted' \in Nat
  /\ accepted' > accepted
  /\ kept' = kept \cup (accepted + 1)..accepted'
  /\ UNCHANGED <<requests, stored, confirmed>>

(* Some samples are discarded; what else leaves with them is one request of
   samples that are in no other request and not stored. *)
Dispatch(discarded, sent) ==
  /\ discarded \subseteq kept /\ sent \subseteq kept
  /\ discarded \cap sent = {}
  /\ discarded \cup sent # {}
  /\ sent \cap (stored \cup UNION requests) = {}
  /\ kept' = kept \ (discarded \cup sent)
  /\ requests' = IF sent = {} THEN requests ELSE requests \cup {sent}
  /\ UNCHANGED <<accepted, stored, confirmed>>

(* The backend stores a request as a whole or not at all. *)
Handle(r, accept) ==
  /\ r \in requests
  /\ requests' = requests \ {r}
  /\ stored' = IF accept THEN stored \cup r ELSE stored
  /\ UNCHANGED <<accepted, kept, confirmed>>

Confirm(s) ==
  /\ s \subseteq stored
  /\ s \cap confirmed = {}
  /\ confirmed' = confirmed \cup s
  /\ UNCHANGED <<accepted, kept, requests, stored>>

Next ==
  \/ Accept
  \/ \E discarded, sent \in SUBSET kept : Dispatch(discarded, sent)
  \/ \E r \in requests, accept \in BOOLEAN : Handle(r, accept)
  \/ \E s \in SUBSET stored : Confirm(s)

Spec == Init /\ [][Next]_vars
=============================================================================
