--------------------------- MODULE MCSnapshotCli ----------------------------
(***************************************************************************)
(* Model of the snapshot commands: a snapshot directory holding up to two  *)
(* snapshot heights, metadata.db, an empty directory, an exported archive *)
(* file and a directory whose name has too many digits; node replies of   *)
(* every kind, a negative height from a foreign endpoint included; and    *)
(* app.toml files exercising every path of parseConfigValueInt.           *)
(***************************************************************************)
EXTENDS SnapshotCli

Entry(kind, digits, lead, tag) == [kind |-> kind, digits |-> digits, lead |-> lead, tag |-> tag]

MCEntries == {
  Entry("dir", "none", 0, "metadata.db"),
  Entry("dir", "digits", 100, "100"),
  Entry("dir", "digits", 200, "200"),
  Entry("emptydir", "digits", 300, "300"),
  Entry("file", "digits", 100, "100-export.tar.gz"),
  Entry("dir", "huge", 0, "99999999999999999999")
}

Reply(status, parsed, height) == [status |-> status, parsed |-> parsed, height |-> height]

MCReplies == {
  Reply("connfail", FALSE, 0),
  Reply("ok", FALSE, 0),
  Reply("ok", TRUE, 0),
  Reply("ok", TRUE, 7),
  Reply("ok", TRUE, 250),
  Reply("ok", TRUE, -30)
}

Line(key, form, val) == [key |-> key, form |-> form, val |-> val]

MCConfigs == {
  ReadError,
  <<Line("pruning-keep-recent", "digits", 0)>>,
  <<Line("snapshot-interval", "digits", 0)>>,
  <<Line("snapshot-interval", "digits", 100), Line("snapshot-keep-recent", "digits", 2)>>,
  <<Line("#snapshot-interval", "digits", 7), Line("snapshot-interval", "digits", 50)>>,
  <<Line("snapshot-interval", "word", 0), Line("snapshot-interval", "digits", 3)>>,
  <<Line("snapshot-interval", "huge", 0)>>
}

=============================================================================
