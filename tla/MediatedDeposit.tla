-------------------------- MODULE MediatedDeposit --------------------------
(***************************************************************************)
(* The one-step mediated deposit workflow the generator installs, taken by *)
(* SipityActions: its states, actions, permissions and methods as data.    *)
(***************************************************************************)
EXTENDS SipityActions

MDRoles == {"depositing", "approving"}
MDUsers == {"depositor", "reviewer"}
MDUserRoles == [depositor |-> {"depositing"}, reviewer |-> {"approving"}]

MDStates == {"pending_review", "changes_required", "deposited"}
MDActions == {"deposit", "request_changes", "approve", "request_review",
              "comment_only"}

MDResulting ==
  [deposit |-> "pending_review",
   request_changes |-> "changes_required",
   approve |-> "deposited",
   request_review |-> "pending_review",
   comment_only |-> NoState]

MDPermissions ==
  ({"pending_review", "deposited"} \X {"request_changes", "comment_only"}
      \X {"approving"})
  \cup {<<"pending_review", "approve", "approving">>}
  \cup ({"changes_required"} \X {"request_review", "comment_only"}
          \X {"depositing"})

MDMethods ==
  [deposit |-> <<"grant_read", "deactivate">>,
   request_changes |-> <<"deactivate", "grant_edit">>,
   approve |-> <<"grant_read", "revoke_edit", "activate">>,
   request_review |-> <<>>,
   comment_only |-> <<>>]

----------------------------------------------------------------------------
\* When no action is in flight the work is public, as far as its state goes,
\* exactly when the workflow says it was approved: the entity's row and the
\* stored work are written apart, by methods that may be skipped or stale.
SuppressedUntilApproved ==
  Quiet => (object = "active" <=> entity = "deposited")

\* When no action is in flight the depositor of an approved work cannot edit
\* it, the one who was asked for changes can, and each can read it, whatever
\* the deposit form granted to begin with.
EditFollowsWorkflow ==
  Quiet => /\ entity = "deposited" => "edit" \notin acl
           /\ entity = "changes_required" => "edit" \in acl
           /\ "read" \in acl

\* The worker that takes this step acts for a reviewer who approves.
StepOfApproval ==
  \E w \in Workers : /\ worker'[w] # worker[w]
                     /\ worker[w].action = "approve"
                     /\ "approving" \in UserRoles[worker[w].user]

\* A suppressed work becomes public, and its entity deposited, in no step but
\* a reviewer's approval: neither the rest of the create_work transaction,
\* which saves a work it loaded earlier, nor a form opened in another state.
OnlyApprovalPublishes ==
  [][ \/ object = "inactive" /\ object' = "active"
      \/ entity # "deposited" /\ entity' = "deposited"
      => StepOfApproval]_vars
=============================================================================
