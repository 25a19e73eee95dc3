------------------------------- MODULE MCBoot --------------------------------
\* kentry with three characters to map, and fonts of one to five glyphs. The
\* bytes 195 and 226 start characters of two and of three bytes, 240 one of
\* four; 254 marks a sequence.
EXTENDS Boot

MCFontPath == <<"f", "o">>

Table(lines) == [magic |-> "PSF2", flags |-> {"unicode"}, lines |-> lines]

MCFonts ==
  {Table(<< <<<<0>>, <<1>>>>, <<<<2>>>> >>),
   Table(<< <<<<195, 129>>>>, <<<<226, 130, 129>>, <<1>>, <<0>>>>, <<<<240, 159, 146, 128>>, <<1>>>> >>),
   Table(<< <<<<2>>>>, << >>, <<<<254>>, <<2>>, <<204, 129>>>>, <<<<0>>>>, <<<<1>>>> >>),
   Table(<< <<<<195, 128>>>> >>),
   Table(<< << >>, << >>, <<<<226, 128, 128>>>> >>),
   [magic |-> "PSF2", flags |-> {}, lines |-> << <<<<1>>>> >>],
   [magic |-> "PSF1", flags |-> {}, lines |-> << << >> >>],
   [magic |-> "other", flags |-> {}, lines |-> << << >> >>]}

File(path, font) ==
  [path |-> path, magic |-> font.magic, flags |-> font.flags, lines |-> font.lines]

Other == [magic |-> "other", flags |-> {}, lines |-> << << >> >>]

MCModules ==
  {NULL, << >>, <<File(<<"o">>, Other), File(<<"f", "o", "x">>, Other)>>}
  \union {<<File(<<"o">>, Other), File(<<"a", "f", "o">>, font), File(<<"f", "o">>, Other)>> : font \in MCFonts}

Full == {"hhdm", "memmap", "rsdp", "bootloader", "firmware"}

\* Every font of up to four glyphs over these lines
Lines ==
  {<< >>, <<<<0>>>>, <<<<195, 129>>, <<1>>>>, <<<<2>>, <<0>>>>, <<<<226, 130, 129>>>>}

SmallFonts == {Table(lines) : lines \in UNION {[1 .. n -> Lines] : n \in 1 .. 4}}

MCBootloaders ==
  [supported    : BOOLEAN,
   framebuffers : {NULL, << >>, <<"fb">>},
   modules      : MCModules,
   responses    : {Full, {"hhdm", "memmap", "rsdp"}, {"memmap", "rsdp", "firmware"}, {"hhdm", "rsdp"},
                   {"hhdm", "memmap"}, {}}]
  \union
  [supported    : {TRUE},
   framebuffers : {<<"fb">>},
   modules      : {<<File(MCFontPath, font)>> : font \in SmallFonts},
   responses    : {Full}]
=============================================================================
