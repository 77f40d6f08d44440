----------------------------- MODULE MCPlatform -----------------------------
(* The instance of Platform that is checked. *)
EXTENDS Platform

\* A VT-d unit as xmhfhwm_vtd.c sets it up.
Unit(high, low, caphi, ecap) ==
  [regbaseaddr |-> Addr(high, low), iotlbaddr |-> Addr(high, low) + 264,
   ivaaddr |-> Addr(high, low) + 256, cap_lo |-> {1, 5, 6, 10, 17, 18, 21, 22, 29},
   cap_hi |-> caphi, ecap_lo |-> ecap]
MCDrhd == [u \in {"u0"} |-> Unit(65241, 0, {22, 23}, {1, 3, 4, 12, 20, 21, 22, 23})]
MCRootTables == {{12}, {13, 33}}
MCRegions == {{21}}

Pci(op, bus, device, function, index, len) ==
  [op |-> op, bus |-> bus, device |-> device, function |-> function, index |-> index, len |-> len]
MCPciRequests ==
  {Pci("read", 0, 31, 3, 4, 2), Pci("read", 255, 2, 0, 4095, 1), Pci("write", 1, 0, 7, 260, 4),
   Pci("write", 256, 0, 0, 0, 4), Pci("read", 0, 0, 0, 4096, 4), Pci("write", 0, 1, 0, 10, 2),
   Pci("read", 0, 1, 0, 8, 3)}

\* Variable MTRRs: regions of an address space of which the model looks at
\* the bits of pages 21 to 23.
Region(bases, bits, type, valid) ==
  [base |-> {b + 12 : b \in bases} \cup type, mask |-> {b + 12 : b \in bits} \cup valid \cup {3}]
MCVariable ==
  {Region(bases, {22, 23}, type, {11}) : bases \in {{}, {22}}, type \in {{2}, {1, 2}}}
  \cup {Region({}, {23}, {0}, {11}), Region({}, {22, 23}, {}, {11}), Region({}, {}, {0, 2}, {})}
MCFirmwares ==
  {[pairs |-> f, calls |-> 2] : f \in [1..3 -> MCVariable]}
  \cup {[pairs |-> [i \in 1..n |-> Region({}, {23}, {1, 2}, {11})], calls |-> 3] : n \in {1, 3, 4}}
  \cup {[pairs |-> <<Region({}, {23}, {}, {})>>, calls |-> 0]}
MCDefTypes == {{1, 2, 10, 11, 50}}
MCMtrrRanges ==
  {[base |-> b[1], size |-> b[2]] :
     b \in {<<0, 4096>>, <<16384, 20480>>, <<8192, 12289>>, <<65536, 0>>, <<4096, 28672>>}}
MCMtrrTypes == {{1, 2}}

MCRegContents == {{}, 0..63, {b \in 0..63 : b % 2 = 0}}

Vendor(ebx, edx, ecx) == [ebx |-> ebx, edx |-> edx, ecx |-> ecx]
MCMachines ==
  {[bios |-> [a \in {Addr(14, 0)} |-> FALSE], vendor |-> Vendor("Genu", "ineI", "ntel")],
   [bios |-> [a \in {Addr(9, 60416) + 1008, Addr(15, 65520)} |-> TRUE],
    vendor |-> Vendor("Auth", "enti", "cAMD")],
   [bios |-> [a \in {Addr(9, 60416) + 1024, Addr(14, 8), Addr(14, 16), Addr(15, 65520)} |->
                a # Addr(14, 16)],
    vendor |-> Vendor("Genu", "ntel", "ineI")]}

MCLibMemories == {[a \in 0..4 |-> IF a = 4 THEN 0 ELSE f[a]] : f \in [0..3 -> {0, 1, 200}]}
MCLibBytes == {0, 1, 200}

MCArgBits == [char |-> 3, short |-> 4, int |-> 8, wide |-> 10]
Digits(n) == Token("number", n)
Flag(c) == Token(c, 0)
MCTokens ==
  {<<>>, <<Flag("0"), Digits(4)>>, <<Flag("-"), Digits(5)>>, <<Flag("#")>>, <<Flag("+")>>,
   <<Flag("#"), Flag("0"), Digits(7)>>, <<Flag("."), Digits(3)>>, <<Digits(5), Flag("."), Digits(2)>>,
   <<Token("*", -4)>>, <<Flag("h")>>, <<Flag("h"), Flag("h")>>, <<Flag("l"), Flag("l")>>,
   <<Flag("t")>>, <<Flag("-"), Flag("0"), Digits(4)>>, <<Flag("."), Token("*", 2)>>,
   <<Flag("#"), Digits(2)>>}
MCNumbers == {0, 1, 7, 9, 100, 255, -1, -128, -7, 300}
Text(n) == [i \in 1..n |-> <<"a", "b", "c", "d">>[i]]
Fmt(items, size, radix) == [format |-> items, size |-> size, radix |-> radix]
MCFormats ==
  {Fmt(<<Directive(t, c, Number(v))>>, 3, 16) :
     t \in MCTokens, c \in {"d", "i", "u", "x", "o", "y", "r", "X", "p"}, v \in MCNumbers}
  \cup {Fmt(<<Copied("k"), Directive(t, "s", s), Directive(<<>>, "%", NoArg)>>, 4, 1) :
          t \in {<<>>, <<Flag("-"), Digits(4)>>, <<Digits(3)>>, <<Flag("."), Digits(1)>>,
                 <<Digits(3), Flag("."), Digits(2)>>},
          s \in {String(Text(0)), String(Text(2)), String(Text(4)), NoArg}}
  \cup {Fmt(<<Directive(<<>>, "d", Number(5)), Directive(<<Digits(3)>>, "k", NoArg), Copied("z"),
              Directive(<<Flag("l")>>, "d", Number(3))>>, size, 10) : size \in {0, 1, 2, 12, 20}}
  \cup {Fmt(<<Directive(<<>>, "b", BitNames(n, 16, <<[bit |-> 2, name |-> <<"B">>],
                                                     [bit |-> 1, name |-> <<"A">>]>>)),
              Directive(<<Digits(2)>>, "D", Bytes(<<171, 5>>, <<":">>)),
              Directive(<<>>, "c", String(<<"k">>))>>, 9, 10) : n \in {0, 2, 3, 4}}

\* Published digests, and texts of every length at which the padding changes.
Message(text, digest_) == [text |-> text, digest |-> digest_]
MCMessages ==
  {Message(<<>>, <<Word32(55865, 41966), Word32(24171, 19213), Word32(12885, 49135),
                   Word32(38240, 6288), Word32(45016, 1801)>>),
   Message(<<97, 98, 99>>, <<Word32(43417, 15926), Word32(18182, 33130), Word32(47678, 9585),
                             Word32(30800, 49772), Word32(40144, 55453)>>),
   Message([i \in 1..56 |-> 97 + ((i - 1) \div 4) + ((i - 1) % 4)],
           <<Word32(33944, 15940), Word32(7227, 53870), Word32(47790, 19105),
             Word32(63825, 10725), Word32(58694, 28913)>>)}
  \cup {Message([i \in 1..n |-> (7 * i) % 256], <<>>) :
          n \in {1, 54, 55, 56, 57, 63, 64, 65, 119, 120, 127, 128}}
=============================================================================
