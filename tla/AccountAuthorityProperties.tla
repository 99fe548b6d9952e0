--------------------- MODULE AccountAuthorityProperties ---------------------
(* What the owners of a JWT account may rely on. *)
EXTENDS AccountAuthority

\* Where the status says that the resolver accepted this revision
\* (published_revision == current), the resolver holds every revocation of the
\* store and no other account JWT, whatever failed or was lost between the push
\* and the record of it.
AcceptedIsPublished ==
    (published # None /\ published = store) => resolver = store.revoked

\* The store, or the resolver, is changed on the word of a review of exactly
\* the store there is: what an administrator confirmed is what is done
\* ("recheck the public JWT revision", docs/JWT_AUTHORITY.md).
AppliedToReviewedStore ==
    [][ (up /\ up' /\ (store' # store \/ resolver' # resolver)) =>
            (holder # None /\ holder.review.before = store) ]_vars

\* What the adapter has been asked and has not carried out or dropped.
HeldAsk ==
    IF Held("run") THEN {[op |-> holder.op, review |-> holder.review]} ELSE {}

Asks == waiting \cup HeldAsk

Account == [store |-> store, resolver |-> resolver]

\* A review of the store permits to give its user a JWT or to revoke it, to
\* publish that store, or nothing.
Permits(review, from, to) ==
    LET u == review.user
    IN /\ from.store = review.before
       /\ \/ review.action = "create_user"
             /\ to = [from EXCEPT !.store.users[u] = to.store.users[u]]
          \/ review.action = "revoke_user"
             /\ to = [from EXCEPT !.store.revoked[u] = to.store.revoked[u]]
          \/ review.action = "publish_account"
             /\ to = [from EXCEPT !.resolver = from.store.revoked]
          \/ review.action = "export_account" /\ to = from

\* However applies are refused, killed at a deadline, lost or cut off, the
\* account changes only for a recorded apply, from the store that its review
\* showed and by its action on its user, and once for each apply; or by
\* administration while the adapter is stopped.  What the activity calls a
\* result is one.
Promise == INSTANCE ManagedChange WITH
    Ops <- 1 .. MaxOps,
    managed <- Account, asks <- Asks, done <- saved

ImplementsManagedChange == Promise!Spec

\* However a command of an apply ends, the lock of the authority is given back.
AuthorityFree == holder # None ~> holder = None
=============================================================================
