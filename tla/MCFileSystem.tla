---------------------------- MODULE MCFileSystem ----------------------------
(***************************************************************************)
(* Three inodes beside the root, one directory that can hold files, and    *)
(* sectors of three entries, so that a directory grows with its second     *)
(* name.                                                                   *)
(***************************************************************************)
EXTENDS FileSystem

MCNames == {"a", "b"}
MCDirPaths == {<<"a">>}
MCFilePaths == {<<"a">>, <<"b">>, <<"a", "a">>, <<"a", "b">>}
MCManaged == {<<"a">>}
MCModes == {{}}

=============================================================================
