------------------------------- MODULE MCGee --------------------------------
(* Patterns and paths over a few segments: what a wildcard may shadow, the *)
(* same parts below a group's prefix, `*filepath' of a static directory,   *)
(* a path that only looks like the group's, and one with `//' in it.       *)
EXTENDS Gee

CONSTANTS a, b, p, pp, x, y, rest, empty

MCPatterns == {<<a>>, <<x, b>>, <<y, b>>, <<x, x>>, <<rest>>, << >>}
MCPrefixes == {<<p>>}
MCDirectories == {<<a>>}
MCPaths == {<<empty>>, <<a>>, <<b>>, <<a, b>>, <<p, a>>, <<p, b, b>>, <<p, p, a>>, <<pp, a>>, <<empty, p, a>>}
MCRequests == {"GET"} \X {<<a, b>>, <<p, p, a>>, <<pp, a>>, <<empty, p, a>>}
MCLongerSegments == {<<p, pp>>}
=============================================================================
