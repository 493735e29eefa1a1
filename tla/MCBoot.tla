------------------------------- MODULE MCBoot -------------------------------
(* Instances of Boot for TLC: pages of four bytes, blocks of two, sizes of *)
(* two octal digits.                                                       *)
EXTENDS Boot, MCPhysMem

MCPath == "bin/init"

File(name, size, kind, pages) == [name |-> name, size |-> size, kind |-> kind, pages |-> pages]
Directory == File("bin/", 0, "directory", 0)
Others == {Directory} \cup {File("bin/other", size, "ELF", 1) : size \in {1, 2, 3, 4, 8, 9, 15}}
Inits == {File(MCPath, 3, kind, 1) : kind \in {"ELF", "binary", "empty ELF"}}
         \cup {File(MCPath, 0, "binary", 1), File(MCPath, 4, "ELF", 2)}
Archives ==
  {<<>>} \cup {<<a>> : a \in Others \cup Inits}
  \cup {<<a, b>> : a, b \in Others \cup Inits}
  \cup {<<a, b, f>> : a, b \in Others, f \in Inits}

Module(ours, files, mapped) ==
  [type |-> "module", ours |-> ours, start |-> 40, files |-> files, mapped |-> mapped]
MMap(m) == [type |-> "mmap", map |-> m]
Other == [type |-> "other"]

Plain == <<Directory, File(MCPath, 4, "ELF", 2)>>
Memory == <<[addr |-> 0, len |-> 24, usable |-> TRUE]>>
Small == <<[addr |-> 0, len |-> 16, usable |-> TRUE]>>
TagsUsed == {Other, MMap(Memory), MMap(Small), Module(TRUE, Plain, 9), Module(FALSE, <<>>, 9),
             Module(TRUE, <<Directory>>, 9)}
Machine(compliant, tags) == [compliant |-> compliant, tags |-> tags]

MCMachines ==
  {Machine(TRUE, <<MMap(m), Module(TRUE, Plain, 9)>>) : m \in MCAnywhere}
  \cup {Machine(TRUE, <<Module(TRUE, files, mapped), MMap(Memory)>>) :
          files \in Archives, mapped \in {2, 3, 40}}
  \cup {Machine(c, tags) : c \in BOOLEAN, tags \in UNION {[1 .. n -> TagsUsed] : n \in 0 .. 3}}
=============================================================================
