------------------------------- MODULE RoleAudit -------------------------------
(***************************************************************************)
(* Roles and their audit trail (apps/accounts/services.py) as the views    *)
(* and the create_admin command drive them.  A change of role is one       *)
(* transaction of two statements: the membership row (account, group), and *)
(* an append to RoleGrant.  Nothing locks the account.  The membership row *)
(* is unique, so an INSERT waits for whoever holds it, and adds nothing    *)
(* when it is there (ON CONFLICT DO NOTHING); a DELETE waits for whoever   *)
(* deletes it, and deletes nothing when it is not there or not committed.  *)
(* A statement that changes nothing locks nothing, and its transaction     *)
(* appends to the trail all the same.                                      *)
(***************************************************************************)
EXTENDS Naturals, Sequences

CONSTANTS
  Targets,      \* the identities accounts can be given
  Changers,     \* the requests served at the same time
  HandEdited,   \* the accounts whose memberships staff edit in the Django admin site
  MaxRows       \* bound: the length of the audit trail

\* What the constants must be.
ASSUME RoleAssumption == MaxRows \in Nat /\ HandEdited \subseteq Targets

VARIABLES
  live,         \* the accounts that exist
  deleted,      \* the identities that are used up
  groups,       \* groups[a]: the committed memberships of account a
  trail,        \* the committed RoleGrant rows, in the order of created_at
  change,       \* change[w]: the role change worker w is making
  bootstrapped  \* create_admin has run: there is a staff account

roleVars == <<live, deleted, groups, trail, change, bootstrapped>>

Roles == {"user", "developer", "admin"}
BaseRole == "user"
RoleImplies == [user |-> {}, developer |-> {"user"}, admin |-> {"developer", "user"}]

\* account_has_role: held, or implied by a role that is held; nobody else is allowed.
HasRole(a, role) ==
  a \in live /\ \E held \in groups[a] : role = held \/ role \in RoleImplies[held]

\* A RoleGrant row, without granted_by, which nothing reads.  The history field
\* `effect` tells whether the membership changed.
GrantRows == [target : Targets, role : Roles, action : {"grant", "revoke"},
              effect : BOOLEAN]

NoChange == [step |-> "idle"]
Changes ==
  {NoChange}
    \cup [step : {"allowed", "written"}, row : GrantRows]

RoleTypeOK ==
  /\ live \subseteq Targets /\ deleted \subseteq Targets \ live
  /\ groups \in [Targets -> SUBSET Roles]
  /\ trail \in Seq(GrantRows) /\ Len(trail) <= MaxRows
  /\ change \in [Changers -> Changes]
  /\ bootstrapped \in BOOLEAN

\* Another transaction holds the membership of a in role: it inserted or deleted it.
Held(w, a, role) ==
  \E v \in Changers \ {w} :
    /\ change[v].step = "written" /\ change[v].row.effect
    /\ change[v].row.target = a /\ change[v].row.role = role

HeldForRemoval(w, a, role) == Held(w, a, role) /\ role \in groups[a]

\* The foreign keys of an uncommitted membership keep its account from going away.
Pinned(a) ==
  \E v \in Changers :
    change[v].step = "written" /\ change[v].row.effect /\ change[v].row.target = a

Room == Len(trail) < MaxRows

-------------------------------------------------------------------------------
\* _create_account_with_base_role: the account, its first membership and its first
\* audit row in one transaction that nobody else can see.
create_account_with_base_role(a) ==
  /\ a \notin live \cup deleted
  /\ Room
  /\ live' = live \cup {a}
  /\ groups' = [groups EXCEPT ![a] = {BaseRole}]
  /\ trail' = Append(trail, [target |-> a, role |-> BaseRole, action |-> "grant",
                             effect |-> TRUE])
  /\ UNCHANGED <<deleted, change, bootstrapped>>

\* A role change passes its checks and is about to open its transaction.
Allow(w, a, role, action) ==
  /\ change[w] = NoChange
  /\ a \in live
  /\ change' = [change EXCEPT ![w] =
       [step |-> "allowed", row |-> [target |-> a, role |-> role, action |-> action,
                                     effect |-> FALSE]]]
  /\ UNCHANGED <<live, deleted, groups, trail>>

\* Mutant: the role to take on comes with the request.
AdoptAnyRole(w, a) ==
  /\ \E role \in Roles : Allow(w, a, role, "grant")
  /\ UNCHANGED bootstrapped

\* DeveloperRoleView: the one self-serve role.
AdoptDeveloper(w, a) ==
  /\ Allow(w, a, "developer", "grant")
  /\ UNCHANGED bootstrapped

\* AdminAccountRolesView: an admin, as of now, changes any role of any account.
AdminChanges(w, a, role, action) ==
  /\ \E admin \in Targets : HasRole(admin, "admin")
  /\ Allow(w, a, role, action)
  /\ UNCHANGED bootstrapped

\* create_admin of an account that exists and is not yet an admin.
BootstrapAdmin(w, a) ==
  /\ ~HasRole(a, "admin")
  /\ Allow(w, a, "admin", "grant")
  /\ bootstrapped' = TRUE

\* create_admin of a new account: it gets the admin role, and no other.
BootstrapNew(a) ==
  /\ a \notin live \cup deleted
  /\ Room
  /\ live' = live \cup {a}
  /\ groups' = [groups EXCEPT ![a] = {"admin"}]
  /\ trail' = Append(trail, [target |-> a, role |-> "admin", action |-> "grant",
                             effect |-> TRUE])
  /\ bootstrapped' = TRUE
  /\ UNCHANGED <<deleted, change>>

(***************************************************************************)
(* grant_role, revoke_role: the membership statement.                      *)
(***************************************************************************)
Written(w, effect) ==
  change' = [change EXCEPT ![w].step = "written", ![w].row.effect = effect]

\* Mutant: without transaction.atomic() the membership commits by itself.
AddCommitted(w) ==
  /\ change[w].step = "allowed" /\ change[w].row.action = "grant"
  /\ LET a == change[w].row.target  role == change[w].row.role IN
       /\ ~Held(w, a, role) /\ a \in live
       /\ Written(w, role \notin groups[a])
       /\ groups' = [groups EXCEPT ![a] = @ \cup {role}]
  /\ UNCHANGED <<live, deleted, trail, bootstrapped>>

groups_add(w) ==
  /\ change[w].step = "allowed" /\ change[w].row.action = "grant"
  /\ LET a == change[w].row.target  role == change[w].row.role IN
       /\ ~Held(w, a, role)
       /\ Written(w, a \in live /\ role \notin groups[a])
  /\ UNCHANGED <<live, deleted, groups, trail, bootstrapped>>

groups_remove(w) ==
  /\ change[w].step = "allowed" /\ change[w].row.action = "revoke"
  /\ LET a == change[w].row.target  role == change[w].row.role IN
       /\ ~HeldForRemoval(w, a, role)
       /\ Written(w, role \in groups[a])
  /\ UNCHANGED <<live, deleted, groups, trail, bootstrapped>>

\* The membership as the transaction leaves it.
Changed(row) ==
  IF row.action = "grant" THEN groups[row.target] \cup {row.role}
                          ELSE groups[row.target] \ {row.role}

\* RoleGrant.objects.create and the commit.  created_at is the time of the INSERT; a
\* transaction that changed the membership still holds it then.
AuditAndCommit(w) ==
  /\ change[w].step = "written"
  /\ change[w].row.target \in live
  /\ Room
  /\ groups' = IF change[w].row.effect
               THEN [groups EXCEPT ![change[w].row.target] = Changed(change[w].row)]
               ELSE groups
  /\ trail' = Append(trail, change[w].row)
  /\ change' = [change EXCEPT ![w] = NoChange]
  /\ UNCHANGED <<live, deleted, bootstrapped>>

\* The account is gone (a violated foreign key), the worker dies: all rolls back.
GiveUp(w) ==
  /\ change[w] # NoChange
  /\ change' = [change EXCEPT ![w] = NoChange]
  /\ UNCHANGED <<live, deleted, groups, trail, bootstrapped>>

\* delete_account: the memberships go, the trail stays (SET NULL).
delete_target(a) ==
  /\ a \in live /\ ~Pinned(a)
  /\ live' = live \ {a}
  /\ deleted' = deleted \cup {a}
  /\ groups' = [groups EXCEPT ![a] = {}]
  /\ UNCHANGED <<trail, change, bootstrapped>>

\* AccountAdmin offers staff the "groups" of an account for editing; nothing audits it.
SiteEdit(a, role) ==
  /\ a \in HandEdited /\ bootstrapped
  /\ a \in live /\ ~Pinned(a)
  /\ groups' = [groups EXCEPT ![a] = IF role \in @ THEN @ \ {role} ELSE @ \cup {role}]
  /\ UNCHANGED <<live, deleted, trail, change, bootstrapped>>
-------------------------------------------------------------------------------
RoleInit ==
  /\ live = {} /\ deleted = {}
  /\ groups = [a \in Targets |-> {}]
  /\ trail = <<>>
  /\ change = [w \in Changers |-> NoChange]
  /\ bootstrapped = FALSE

RoleNext ==
  \/ \E a \in Targets :
       \/ create_account_with_base_role(a)
       \/ BootstrapNew(a)
       \/ delete_target(a)
       \/ \E role \in Roles : SiteEdit(a, role)
       \/ \E w \in Changers :
            \/ AdoptDeveloper(w, a)
            \/ BootstrapAdmin(w, a)
            \/ \E role \in Roles, action \in {"grant", "revoke"} :
                 AdminChanges(w, a, role, action)
  \/ \E w \in Changers :
       \/ groups_add(w)
       \/ groups_remove(w)
       \/ AuditAndCommit(w)
       \/ GiveUp(w)

RoleSpec == RoleInit /\ [][RoleNext]_roleVars

-------------------------------------------------------------------------------
About(i, a, role) == trail[i].target = a /\ trail[i].role = role

\* The trail tells who holds a role, of an account that staff do not edit by hand: of the
\* changes of a membership that changed it, the last one in the trail is the state it
\* is in, whatever changes overlap.  (What the trail adds to that are changes that
\* changed nothing.)
TrailTellsMembership ==
  \A a \in live \ HandEdited, role \in Roles :
    role \in groups[a] <=>
      \E i \in DOMAIN trail :
        /\ About(i, a, role) /\ trail[i].effect /\ trail[i].action = "grant"
        /\ \A j \in i + 1 .. Len(trail) : About(j, a, role) => ~trail[j].effect

\* Nobody is an admin before the operator made the first one: no chain of requests
\* leads from the self-serve role to the admin role.
AdminsComeFromAdmins ==
  ~bootstrapped => \A a \in Targets : "admin" \notin groups[a]

\* The last audit row about a membership tells whether it is held.  (services.py:
\* "authorization state and its audit trail can never drift")
TrailNeverDrifts ==
  \A a \in live, role \in Roles, i \in DOMAIN trail :
    About(i, a, role) /\ (\A j \in i + 1 .. Len(trail) : ~About(j, a, role)) =>
      (role \in groups[a] <=> trail[i].action = "grant")
===============================================================================
