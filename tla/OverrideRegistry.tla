-------------------------- MODULE OverrideRegistry --------------------------
(***************************************************************************)
(* The registry of native overrides (src/override_registry.cpp).           *)
(*                                                                         *)
(* An override replaces the guest code at one address of one generation of *)
(* one image.  A suppression hides the override of an identity for as long *)
(* as a C++ scope lives, so that an override can reach the guest code it   *)
(* replaces; suppressions_ is a vector used as a stack by those scopes.    *)
(***************************************************************************)
EXTENDS SequencesExt, Types

VARIABLES
  overrides,    \* overrides_: the identities with a registered function
  suppressions  \* suppressions_: a stack of identities, last one innermost

registryVars == <<overrides, suppressions>>

RegistryTypeOK ==
  /\ overrides \subseteq ExecutionIdentity
  /\ suppressions \in Seq(ExecutionIdentity)

RegistryInit == overrides = {} /\ suppressions = <<>>

(* install and remove: insert_or_assign keeps one entry per identity. *)
Install(id) == overrides' = overrides \union {id}
Erase(id) == overrides' = overrides \ {id}

IsSuppressed(id) == id \in Range(suppressions)

(* Mutant: find forgets the suppressions. *)
FindUnsuppressed(id) == id \in overrides

(* find: the override that dispatch on id enters, if there is one. *)
Finds(id) == id \in overrides /\ ~IsSuppressed(id)

(* pop_back of suppressions_ or active_overrides, when a C++ scope ends. *)
PopBack(s) == SubSeq(s, 1, Len(s) - 1)
=============================================================================
