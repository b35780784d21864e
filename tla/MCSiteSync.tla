----------------------------- MODULE MCSiteSync -----------------------------
(* Five devices: on site "a" two classes, one of them with tags that overlap, and a    *)
(* device without a type (class 0) that has a tag of its own; on site "b" one device.  *)
EXTENDS SiteSync

MCSiteOf == <<"a", "a", "a", "a", "b">>
MCModelOf == <<2, 1, 2, 0, 1>>
MCTagsOf == <<{1, 3}, {}, {2, 3}, {4}, {1}>>
=============================================================================
