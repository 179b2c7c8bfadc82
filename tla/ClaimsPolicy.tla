----------------------------- MODULE ClaimsPolicy -----------------------------
(***************************************************************************)
(* Who may do what: .claude-flow/claims.json and the `claims` command      *)
(* (crates/ruflo-cli/src/claims.rs).                                       *)
(*                                                                         *)
(* `claims check` lays the file over the built-in policy, key by key; the  *)
(* commands that change the policy read the file as it is, or the built-in *)
(* policy when there is none, and write all of it.  Left out: claims asked *)
(* for are the members of Actions, and a pattern is what it matches; files *)
(* that do not parse, with which check denies and the others refuse; the   *)
(* choice among three paths, of which all commands take the first that     *)
(* exists.  Commands are taken one by one.                                 *)
(***************************************************************************)
EXTENDS Naturals

CONSTANTS
  Users, Roles,
  Actions,        \* what may be asked for
  Patterns,       \* what may be granted
  Meaning,        \* the actions a pattern matches
  BuiltInRoles,   \* default_config: roles
  BuiltInClaims,  \* default_config: defaultClaims
  NoRole, Missing

RoleTables == [Roles -> (SUBSET Patterns) \cup {NoRole}]
Policies ==
  [users : [Users -> [role : Roles \cup {NoRole}, claims : SUBSET Patterns]],
   roles : RoleTables \cup {Missing},
   defaults : (SUBSET Patterns) \cup {Missing}]

ASSUME ClaimsAssumption ==
  /\ Meaning \in [Patterns -> SUBSET Actions]
  /\ BuiltInRoles \in RoleTables
  /\ BuiltInClaims \subseteq Patterns
  /\ NoRole \notin Roles /\ \A granted \in SUBSET Patterns : granted \notin {NoRole, Missing}
  /\ \A t \in RoleTables : t # Missing
  /\ \A p \in Policies : p # Missing

VARIABLE policy  \* the file, or Missing

ClaimsTypeOK == policy \in Policies \cup {Missing}

NoUsers == [u \in Users |-> [role |-> NoRole, claims |-> {}]]

\* No file, or one written by hand: only there users are given roles, and keys
\* may be missing.
ClaimsInit ==
  \/ policy = Missing
  \/ \E role \in [Users -> Roles \cup {NoRole}], rs \in {BuiltInRoles, Missing},
        ds \in {BuiltInClaims, {}, Missing} :
       policy = [users |-> [u \in Users |-> [role |-> role[u], claims |-> {}]],
                 roles |-> rs, defaults |-> ds]

\* load: what the commands change.
Loaded ==
  IF policy = Missing
  THEN [users |-> NoUsers, roles |-> BuiltInRoles, defaults |-> BuiltInClaims]
  ELSE policy

\* load_merged_for_check: what check goes by.
Merged(p) ==
  IF p = Missing
  THEN [users |-> NoUsers, roles |-> BuiltInRoles, defaults |-> BuiltInClaims]
  ELSE [p EXCEPT !.roles = IF @ = Missing THEN BuiltInRoles ELSE @,
                 !.defaults = IF @ = Missing THEN BuiltInClaims ELSE @]

ClaimsOfRole(p, u) ==
  LET r == p.users[u].role
  IN  IF r = NoRole \/ p.roles[r] = NoRole THEN {} ELSE p.roles[r]

\* check_claim, for all actions at once.
Matched(granted) == UNION {Meaning[g] : g \in granted}

Allowed(p, u) ==
  LET m == Merged(p)
  IN  Matched(m.defaults \cup m.users[u].claims \cup ClaimsOfRole(m, u))

------------------------------------------------------------------------------
\* ensure_object: a file without roles gets an empty table of its own.
OwnRoles(p) == IF p.roles = Missing THEN [r \in Roles |-> NoRole] ELSE p.roles

UsersGranted(p, c, us) ==
  [u \in Users |-> IF u \in us THEN [p.users[u] EXCEPT !.claims = @ \cup {c}] ELSE p.users[u]]

RolesGranted(p, c, rs) ==
  LET own == OwnRoles(p)
  IN  [r \in Roles |->
         IF r \in rs THEN {c} \cup (IF own[r] = NoRole THEN {} ELSE own[r]) ELSE own[r]]

\* FAULT: the claims that the user has are not kept.
GrantAnew(c, us, rs) ==
  /\ us \cup rs # {}
  /\ policy' = [Loaded EXCEPT
       !.users = [u \in Users |-> IF u \in us THEN [@[u] EXCEPT !.claims = {c}] ELSE @[u]],
       !.roles = RolesGranted(Loaded, c, rs)]

\* To a user, a role, or one of each, who need not exist.
Grant(c, us, rs) ==
  /\ us \cup rs # {}
  /\ policy' = [Loaded EXCEPT !.users = UsersGranted(Loaded, c, us),
                              !.roles = RolesGranted(Loaded, c, rs)]

UsersRevoked(p, c, us) ==
  [u \in Users |-> IF u \in us THEN [p.users[u] EXCEPT !.claims = @ \ {c}] ELSE p.users[u]]

RolesRevoked(p, c, rs) ==
  IF p.roles = Missing THEN Missing
  ELSE [r \in Roles |-> IF r \in rs THEN p.roles[r] \ {c} ELSE p.roles[r]]

\* Removed from the table it stands in, or refused when it stands in neither.
Revoke(c, us, rs) ==
  LET p     == Loaded
      has   == {u \in us : c \in p.users[u].claims}
      carry == {r \in rs : p.roles # Missing /\ p.roles[r] # NoRole /\ c \in p.roles[r]}
  IN  /\ has \cup carry # {}
      /\ policy' = [p EXCEPT !.users = UsersRevoked(p, c, has), !.roles = RolesRevoked(p, c, carry)]

\* claims roles and claims policies: create and delete are the same in both.
CreateRole(r) ==
  LET p == Loaded
  IN  /\ OwnRoles(p)[r] = NoRole
      /\ policy' = [p EXCEPT !.roles = [OwnRoles(p) EXCEPT ![r] = {}]]

DeleteRole(r) ==
  LET p == Loaded
  IN  /\ p.roles # Missing
      /\ p.roles[r] # NoRole
      /\ policy' = [p EXCEPT !.roles = [@ EXCEPT ![r] = NoRole]]

One(S) == {{}} \cup {{x} : x \in S}

ClaimsNext ==
  \/ \E c \in Patterns, us \in One(Users), rs \in One(Roles) :
       Grant(c, us, rs) \/ Revoke(c, us, rs)
  \/ \E r \in Roles : CreateRole(r) \/ DeleteRole(r)

ClaimsSpec == ClaimsInit /\ [][ClaimsNext]_policy

------------------------------------------------------------------------------
(* Correctness *)

Lost(u) == Allowed(policy, u) \ Allowed(policy', u)

\* What a user has by a built-in role that the file does not redefine yet.
BuiltInOnly(u) ==
  IF policy # Missing /\ policy.roles = Missing
  THEN Matched(ClaimsOfRole(Merged(policy), u)) ELSE {}

Named(u, us, rs) == u \in us \/ policy'.users[u].role \in rs

\* What check answers follows what the commands do, although check and commands
\* read the file differently.  A grant reaches everybody it names and takes
\* nothing from anybody; only when the file has no roles of its own, it and the
\* creation of a role take from a user what the built-in role gave.  A revoke
\* gives nothing, and takes no more than the claim, from those it names.
CheckFollows ==
  [][policy' # policy =>
     /\ \A c \in Patterns, us \in One(Users), rs \in One(Roles) :
          /\ Grant(c, us, rs) =>
               \A u \in Users : /\ Named(u, us, rs) => Meaning[c] \subseteq Allowed(policy', u)
                                /\ Lost(u) \subseteq BuiltInOnly(u)
          /\ Revoke(c, us, rs) =>
               \A u \in Users : /\ Allowed(policy', u) \subseteq Allowed(policy, u)
                                /\ Lost(u) \subseteq IF Named(u, us, rs) THEN Meaning[c] ELSE {}
     /\ (\E r \in Roles : CreateRole(r)) => \A u \in Users : Lost(u) \subseteq BuiltInOnly(u)
    ]_policy
=============================================================================
