---------------------------- MODULE MCUploadNode ----------------------------
(* Small folders and phones for UploadNode. *)
EXTENDS UploadNode

CONSTANTS a, b       \* transfers

Same(paths) == {<<p, p>> : p \in paths}

Sizes(n) == [t \in Transfer |-> n]
One == Sizes(1)
Five == Sizes(5)

All(transfers) == {"begin", "finish", "abort"} \X transfers

(* A photo. *)
Photo == {"/p"}
PhotoOf == [t \in Transfer |-> "/p"]
PhotoRelated == Same(Photo)
PhotoAndRemoval == All(Transfer) \cup ({"remove"} \X Photo)

(* A manifest, and the directory it is in. *)
Root == {"/.watermelon"}
Manifest == Root \cup {"/.watermelon/m"}
ManifestOf == [t \in Transfer |-> "/.watermelon/m"]
ManifestRelated == Manifest \X Manifest
ManifestRequests == All(Transfer) \cup ({"remove"} \X Root)
=============================================================================
