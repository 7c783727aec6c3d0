----------------------------- MODULE MCXbeLoad -----------------------------
(***************************************************************************)
(* XbeLoad with 10 cells of RAM in a space of 14 addresses.                 *)
(***************************************************************************)
EXTENDS XbeLoad

Section(name, va, vsize, raw) ==
    [name |-> name, flags |-> "supported", va |-> va, vsize |-> vsize, raw |-> raw,
     at |-> 3, imports |-> <<>>]
Thunks(va, vsize, raw, imports) ==
    [name |-> ".thunk", flags |-> "supported", va |-> va, vsize |-> vsize, raw |-> raw,
     at |-> 3, imports |-> imports]
Import(ordinal, offset) == [ordinal |-> ordinal, offset |-> offset]
Image(sections) ==
    [base |-> 1, headers |-> 3, size |-> 11, entry |-> 4, tls |-> FALSE, file |-> 6, table |-> 1,
     certificate |-> {}, sections |-> sections]

\* Sections that are adjacent, overlap, leave the RAM or the image, with
\* trampolines inside sections, over one another and outside the image.
MCSections ==
    { <<Section(".text", 4, 3, 2), Thunks(7, 3, 1, <<Import(10, 0), Import(11, 1)>>)>>,
      <<Section(".text", 4, 3, 3), Thunks(7, 2, 1, <<Import(10, 8)>>)>>,
      <<Section(".text", 4, 2, 2), Thunks(6, 2, 2, <<Import(10, 0), Import(11, 5)>>)>>,
      <<Section(".text", 4, 2, 1), Section(".data", 7, 1, 0), Section(".bss", 5, 2, 1)>>,
      <<Section(".text", 4, 2, 1), Section(".data", 8, 4, 1)>>,
      <<Section(".tls", 4, 2, 1)>>, <<Section(".text", 4, 1, 2)>>,
      <<Section(".text", 4, 2, 1), Thunks(6, 2, 2, <<Import(99, 0)>>)>> }

Medium(kind, descriptor, hasDefault, rootAt, xbe) ==
    [kind |-> kind, descriptor |-> descriptor, hasDefaultXbe |-> hasDefault, size |-> 4,
     root |-> [at |-> rootAt, size |-> 1], xbe |-> xbe]
Executable(xbe) == Medium("Xbe", "none", FALSE, 0, xbe)
Small == Image(<<Section(".text", 4, 2, 1)>>)
Certificate(va, size) == {[va |-> va, size |-> size]}

\* Executables, some damaged; discs of both layouts, some damaged.
MCMedia ==
    {Executable(Image(s)) : s \in MCSections}
    \cup {Executable(img) :
            img \in {[Small EXCEPT !.certificate = Certificate(1, 1)],
                     [Small EXCEPT !.certificate = Certificate(0, 1)],
                     [Small EXCEPT !.certificate = Certificate(2, 3)],
                     [Small EXCEPT !.file = 3], [Small EXCEPT !.headers = 7],
                     [Small EXCEPT !.table = 4], [Small EXCEPT !.entry = 12],
                     [Small EXCEPT !.tls = TRUE]}}
    \cup {Medium("Other", d, h, at, Small) :
            d \in {"trimmed", "raw", "none"}, h \in BOOLEAN, at \in {3, 4}}

Region(base, size, offset, type, perms) ==
    [base |-> base, size |-> size, type |-> type, offset |-> offset, perms |-> perms]

\* All of RAM, RAM in two pieces, with an alias, with a part that cannot be
\* written, and a device's registers.
MCRegions ==
    { RamRegion, Region(0, 7, 0, "Ram", {"Read", "Write", "Execute"}),
      Region(7, 4, 5, "Ram", {"Read", "Write"}),
      Region(7, 3, 7, "Ram", {"Read", "Execute"}),
      Region(7, 3, 7, "Ram", {"Read", "Write", "Execute"}),
      Region(0, 10, 0, "Ram", {"Read"}),
      Region(11, 2, 0, "Mmio", {"Read", "Write"}) }
=============================================================================
