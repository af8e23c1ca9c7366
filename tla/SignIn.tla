------------------------------- MODULE SignIn -------------------------------
(***************************************************************************)
(* Single sign-on (EnterpriseSSOService): authorize() issues a state, the  *)
(* identity provider sends the browser back with it, and callback()        *)
(* redeems it for a profile in two exchanges with the controller.  The     *)
(* browser may call back again, late, or for another tenant.               *)
(*                                                                         *)
(* Abstractions.  A state is new whenever it is drawn.  The product is a   *)
(* part of the tenant.  Time passes as the expiry of a state.              *)
(***************************************************************************)
EXTENDS Naturals, FiniteSets

CONSTANTS States, Tenants, MaxCallbacks, None

VARIABLES
  oauthController,  \* init() has succeeded
  pendingStates,    \* [States -> the tenant it was issued for, None if it has no entry]
  expired,          \* states whose expiresAt is over
  issued,           \* by state: the tenant and whether authorize() has returned it
  callbacks,        \* by state: the callbacks that exchange its code, and their tenants
  called,           \* bound: callbacks so far
  profiles          \* history: profiles returned, by state and tenant

signInVars == <<oauthController, pendingStates, expired, issued, callbacks, called, profiles>>

Unissued == [tenant |-> None, returned |-> FALSE]

Init ==
  /\ oauthController = FALSE
  /\ pendingStates = [s \in States |-> None]
  /\ expired = {}
  /\ issued = [s \in States |-> Unissued]
  /\ callbacks = [s \in States |-> {}]
  /\ called = 0
  /\ profiles = {}

(* init(), with a database that answers.  (If none does it throws, and the *)
(* caller may go on without single sign-on.)                               *)
InitService ==
  /\ ~oauthController /\ oauthController' = TRUE
  /\ UNCHANGED <<pendingStates, expired, issued, callbacks, called, profiles>>

Entries == {s \in States : pendingStates[s] # None}

(* authorize() up to its await: the entry is there before the controller   *)
(* has answered.                                                           *)
Authorize(s, tenant) ==
  /\ oauthController /\ issued[s] = Unissued
  /\ issued' = [issued EXCEPT ![s].tenant = tenant]
  /\ pendingStates' = [x \in States |->
       CASE x = s -> tenant
         [] x \in Entries \cap expired -> None   \* sweepExpiredStates()
         [] OTHER -> pendingStates[x]]
  /\ UNCHANGED <<oauthController, expired, callbacks, called, profiles>>

(* controller.authorize() has answered: the browser has the state.  (If it *)
(* rejects nobody has it, and its entry waits to be swept.)                *)
AuthorizeReturns(s) ==
  /\ issued[s].tenant # None /\ ~issued[s].returned
  /\ issued' = [issued EXCEPT ![s].returned = TRUE]
  /\ UNCHANGED <<oauthController, pendingStates, expired, callbacks, called, profiles>>

Expires(s) ==
  /\ issued[s] # Unissued /\ s \notin expired
  /\ expired' = expired \cup {s}
  /\ UNCHANGED <<oauthController, pendingStates, issued, callbacks, called, profiles>>

Redeemable(s, tenant) == pendingStates[s] = tenant /\ s \notin expired

(* Fault: the state is given up when the profile is there.                 *)
DeleteLate(s) == UNCHANGED pendingStates

Delete(s) == pendingStates' = [pendingStates EXCEPT ![s] = None]

(* callback() up to its first await: whatever it meets, the state is gone. *)
Callback(s, tenant) ==
  /\ oauthController /\ issued[s].returned /\ called < MaxCallbacks
  /\ called' = called + 1
  /\ Delete(s)
  /\ callbacks' = IF Redeemable(s, tenant)
                  THEN [callbacks EXCEPT ![s] = @ \cup {<<called, tenant>>}]
                  ELSE callbacks
  /\ UNCHANGED <<oauthController, expired, issued, profiles>>

(* oauthToken() and userInfo() have answered, or one of them rejects.      *)
Exchanged(s) ==
  \E c \in callbacks[s] :
    /\ callbacks' = [callbacks EXCEPT ![s] = @ \ {c}]
    /\ \/ profiles' = profiles \cup {<<s, c>>}
       \/ UNCHANGED profiles
    /\ UNCHANGED <<oauthController, pendingStates, expired, issued, called>>

Next ==
  \/ InitService
  \/ \E s \in States :
       \/ AuthorizeReturns(s) \/ Expires(s) \/ Exchanged(s)
       \/ \E tenant \in Tenants : Authorize(s, tenant) \/ Callback(s, tenant)

Spec == Init /\ [][Next]_signInVars

-----------------------------------------------------------------------------
Calls == (0..(MaxCallbacks - 1)) \X Tenants

TypeOK ==
  /\ oauthController \in BOOLEAN
  /\ pendingStates \in [States -> Tenants \cup {None}]
  /\ expired \subseteq States
  /\ issued \in [States -> [tenant : Tenants \cup {None}, returned : BOOLEAN]]
  /\ callbacks \in [States -> SUBSET Calls]
  /\ called \in 0..MaxCallbacks
  /\ profiles \subseteq States \X Calls

(* A state is redeemed once, by a callback for the tenant it was issued    *)
(* for, however callbacks are repeated while the code is exchanged         *)
(* (sso.ts:107-108), and none is redeemed after its entry was swept.       *)
RedeemedOnce ==
  \A s \in States :
    LET redeemed == callbacks[s] \cup {p[2] : p \in {q \in profiles : q[1] = s}}
    IN /\ Cardinality(redeemed) <= 1
       /\ \A c \in redeemed : c[2] = issued[s].tenant
       /\ redeemed # {} => pendingStates[s] = None

=============================================================================
