------------------------------ MODULE MCMount ------------------------------
(* Small instances of Mount for TLC.                                       *)
EXTENDS Mount, TLC

mc_Sources == {"sda", "sdb", "tty"}
mc_Targets == {"/", "/mnt"}
mc_UUIDs   == {"u1", "u2"}
mc_FsOn    == "sda" :> "ext" @@ "sdb" :> "fat" @@ "tty" :> "none"

mc_InitMounts ==
    <<[source |-> "sda", target |-> "/", type |-> "ext", flags |-> {}]>>

\* sdb is out of reach by its UUID: the tty comes first and has none.
mc_DevFolder == <<[name |-> "sda", uuid |-> "u1"],
                  [name |-> "tty", uuid |-> "none"],
                  [name |-> "sdb", uuid |-> "u2"]>>

mc_Fields(source, type, flags) ==
    [kind |-> "fields", source |-> source, target |-> "/mnt", type |-> type,
     flags |-> flags]

mc_Fstab == <<mc_Fields("u2", "fat", {}),
              [kind |-> "comment"],
              mc_Fields("u1", "ext", {}),
              mc_Fields("sdb", "fat", {"ro", "relatime"}),
              [kind |-> "malformed"],
              mc_Fields("sda", "ext", {})>>

mc_Commands ==
    {[op |-> "fstab"],
     [op |-> "mount", source |-> "sda", target |-> "/mnt", type |-> "any", flags |-> {}],
     [op |-> "mount", source |-> "sdb", target |-> "/mnt", type |-> "any", flags |-> {"noatime"}],
     [op |-> "one_path", target |-> "/", flags |-> {"remount", "ro"}],
     [op |-> "umount", target |-> "/mnt"]}

\* With a type, and without.
mc_TypedCommands ==
    {[op |-> "mount", source |-> "sdb", target |-> "/mnt", type |-> t, flags |-> {"ro"}] :
        t \in {"any", "fat"}}

\* The processes are interchangeable.
Symmetry == Permutations(Procs)
=============================================================================
