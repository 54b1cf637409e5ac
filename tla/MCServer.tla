----------------------------- MODULE MCServer -------------------------------
(* Small instances of the server's own machinery in one state graph: the   *)
(* database adapter, schema migrations, accounts and sessions, and the     *)
(* rate limiter.  They share no state, so a behaviour chooses one of them  *)
(* (part) and leaves the others alone.                                     *)
EXTENDS DbAdapter, Migrations, Access, RateLimiter, TLC

VARIABLE part   \* the component that runs

Parts == {"adapter", "migrations", "access", "limiter"}

\* Requests; servers and session ids, which are the same model values.
Symmetry == Permutations(Reqs) \cup Permutations(Sids)

\* Of a component that does not run one initial state is enough.
ServerInit ==
  /\ part \in Parts
  /\ DbInit
  /\ MgInit
  /\ \/ part = "migrations"
     \/ /\ mgSlug = [t \in MgTenants |-> "simple"]
        /\ mgDb = PastDb([last |-> 0, missing |-> {}], "uuid", 0, {}, {})
  /\ AccInit
  /\ \/ part = "access"
     \/ /\ role = "admin"
        /\ ~user.secret
        /\ sess = [s \in Sids |-> Free]
  /\ LimInit

ServerNext ==
  /\ UNCHANGED part
  /\ \/ /\ part = "adapter" /\ DbNext
        /\ UNCHANGED <<mgVars, accVars, limVars>>
     \/ /\ part = "migrations" /\ MgNext
        /\ UNCHANGED <<dbVars, accVars, limVars>>
     \/ /\ part = "access" /\ AccNext
        /\ UNCHANGED <<dbVars, mgVars, limVars>>
     \/ /\ part = "limiter" /\ LimNext
        /\ UNCHANGED <<dbVars, mgVars, accVars>>

ServerSpec ==
  ServerInit /\ [][ServerNext]_<<part, dbVars, mgVars, accVars, limVars>>
=============================================================================
