------------------------------- MODULE Types -------------------------------
(***************************************************************************)
(* The identities every component shares (include/amigaport/types.hpp).    *)
(***************************************************************************)
EXTENDS Integers

CONSTANTS
  Addr,           \* guest addresses, and the words that guest memory holds
  Tags,           \* nonzero ImageTag values
  NoTag,          \* ImageTag{0}: no image
  MaxGeneration   \* numeric_limits<ImageGeneration>::max()

ASSUME IdentityAssumption == MaxGeneration \in Nat /\ NoTag \notin Tags

Image == [tag : Tags \union {NoTag}, generation : 0..MaxGeneration]
ExecutionIdentity == [image : Image, address : Addr]
=============================================================================
