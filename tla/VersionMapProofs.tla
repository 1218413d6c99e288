--------------------------- MODULE VersionMapProofs ---------------------------
(***************************************************************************)
(* The abstract versions specification keeps every key. It is used by     *)
(* VersionListsProofs, through the refinement mapping of VersionLists, to *)
(* show that the list-level writes keep every appVersion.                  *)
(***************************************************************************)
EXTENDS VersionMap, TLAPS

\* The key-wise merge keeps the keys of the existing map.
LEMMA MergeKeepsKeys ==
    ASSUME NEW existing, NEW decl
    PROVE  DOMAIN existing \subseteq DOMAIN MergeMaps(existing, decl)
BY DEF MergeMaps

\* Once the ApplicationDefinition exists, neither a catalog change, nor a
\* create, nor the reconciler's update drops an appVersion or unsorts the
\* list, for every set of keys and references.
LEMMA AbstractKeysKept == Spec => KeysKept
<1> DEFINE Kept == versions # Absent =>
                     /\ DOMAIN versions \subseteq DOMAIN versions'
                     /\ ascending => ascending'
<1>1. ASSUME Declare PROVE Kept
  BY <1>1 DEF Declare
<1>2. ASSUME Create PROVE Kept
  BY <1>2 DEF Create
<1>3. ASSUME Update PROVE Kept
  BY <1>3, MergeKeepsKeys DEF Update
<1>4. ASSUME UNCHANGED vars PROVE Kept
  BY <1>4 DEF vars
<1>5. [Next]_vars => Kept
  BY <1>1, <1>2, <1>3, <1>4 DEF Next
<1>. QED  BY <1>5, PTL DEF Spec, KeysKept
=============================================================================
