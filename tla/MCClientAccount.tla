--------------------------- MODULE MCClientAccount ---------------------------
(* The parts of the mobile client that keep something of the user, on small *)
(* instances.  They share no variable; a behaviour is one of one of them,   *)
(* its focus, while the others stay as they were at first.                  *)
EXTENDS Vault, Session, IncomeBracket, MCProfile, Notifications

VARIABLE focus

ClientInit ==
    /\ VaultInit /\ SessionInit /\ GuideInit /\ ProfileInit /\ NotificationInit
    /\ focus \in {"vault", "session", "guide", "profile", "notifications"}

ClientNext ==
    \/ /\ focus = "vault" /\ VaultNext
       /\ UNCHANGED <<sessionVars, guide, profVars, noteVars, focus>>
    \/ /\ focus = "session" /\ SessionNext
       /\ UNCHANGED <<vaultVars, guide, profVars, noteVars, focus>>
    \/ /\ focus = "guide" /\ GuideNext
       /\ UNCHANGED <<vaultVars, sessionVars, profVars, noteVars, focus>>
    \/ /\ focus = "profile" /\ ProfileNext
       /\ UNCHANGED <<vaultVars, sessionVars, guide, noteVars, focus>>
    \/ /\ focus = "notifications" /\ NotificationNext
       /\ UNCHANGED <<vaultVars, sessionVars, guide, profVars, focus>>

ClientSpec ==
    ClientInit /\ [][ClientNext]_<<vaultVars, sessionVars, guide, profVars, noteVars, focus>>

\* The type invariant of the part in focus: every value is one its variable in the code can hold.
ClientTypeOK ==
    CASE focus = "vault"         -> VaultTypeOK
      [] focus = "session"       -> SessionTypeOK
      [] focus = "guide"         -> GuideTypeOK
      [] focus = "profile"       -> ProfileTypeOK
      [] focus = "notifications" -> NotificationTypeOK
=============================================================================
