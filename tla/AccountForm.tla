----------------------------- MODULE AccountForm -----------------------------
(***************************************************************************)
(* The forms that change the user name and the password (AccountSettings). *)
(* One lock serves both; after the password a timer ends the session.      *)
(***************************************************************************)
VARIABLES
  account,    \* which forms are complete, and the lock
  changes,    \* changes under way; here: the forms are still there
  signed,     \* whether the user is signed in
  signout     \* the timer of a changed password is running

Forms == {"username", "password"}
AccountFresh == [complete |-> {}, locked |-> FALSE]
AccountType ==
  /\ account \in [complete: SUBSET Forms, locked: BOOLEAN]
  /\ changes \subseteq [form: Forms, here: BOOLEAN]
  /\ signed \in BOOLEAN /\ signout \in BOOLEAN
AccountInit ==
  account = AccountFresh /\ changes = {} /\ signed = TRUE /\ signout = FALSE

\* A form is complete with the password's rules and its repetition met.
FillForm(f) ==
  /\ ~account.locked
  /\ account' = [account EXCEPT !.complete = (@ \ {f}) \cup ({f} \ @)]
  /\ UNCHANGED <<changes, signed, signout>>

SendForm(f) ==
  /\ ~account.locked /\ f \in account.complete
  /\ account' = [account EXCEPT !.locked = TRUE]
  /\ changes' = changes \cup {[form |-> f, here |-> TRUE]}
  /\ UNCHANGED <<signed, signout>>

\* The timer starts even when the form is gone.
AccountAnswered(c, ok) ==
  /\ c \in changes /\ changes' = changes \ {c}
  /\ account' =
       IF ~c.here THEN account
       ELSE [account EXCEPT !.locked = FALSE,
               !.complete = IF ok THEN @ \ {c.form} ELSE @]
  /\ signout' = (signout \/ (ok /\ c.form = "password"))
  /\ UNCHANGED signed

AccountStep == \E f \in Forms : FillForm(f) \/ SendForm(f)
=============================================================================
