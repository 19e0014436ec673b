------------------------------ MODULE MCPageDump ------------------------------
(* Pages for PageDump: of every kind of relation, whole and cut short,     *)
(* with all arrangements of up to three line pointers; damaged headers;    *)
(* GIN pages of every kind, with posting lists that need one to seven      *)
(* bytes for a difference.                                                 *)
EXTENDS PageDump

UpTo(n, S) == UNION {[1..m -> S] : m \in 0..n}
NoGin == [maxoff |-> 0, right |-> <<>>, segs |-> <<>>, items |-> <<>>, tuples |-> <<>>, lists |-> <<>>]

(* A page of a kind, its tuples laid out from the special section down.    *)
SectionOf(kind) == CASE kind = "heap" -> 0
                     [] kind = "sequence" -> MAXALIGN(4)
                     [] kind \in {"gin", "spgist"} -> 8
                     [] OTHER -> 16
MarkOf(kind) == CASE kind = "spgist" -> SPGIST_PAGE_ID [] kind = "hash" -> HASHO_PAGE_ID
                  [] kind = "gist" -> GIST_PAGE_ID [] OTHER -> 0
Laid(kind, its) ==
  [i \in DOMAIN its |->
     [its[i] EXCEPT !.off = IF its[i].len = 0 THEN @
                            ELSE BlockSize - SectionOf(kind)
                                 - FoldLeft(LAMBDA n, it : n + MAXALIGN(it.len), 0, SubSeq(its, 1, i))]]
PageOf(kind, its, flags) ==
  LET laid == Laid(kind, its)
      kept == {laid[i].off : i \in {k \in DOMAIN laid : laid[k].len > 0}}
      special == BlockSize - SectionOf(kind)
  IN  [kind |-> kind, bytes |-> BlockSize, lower |-> 24 + 4 * Len(its),
       upper |-> IF kept = {} THEN special ELSE Min(kept), special |-> special,
       version |-> TRUE, checksum |-> TRUE,
       word |-> IF kind = "sequence" THEN SEQUENCE_MAGIC ELSE 0, last |-> MarkOf(kind),
       flags |-> flags, items |-> laid, content |-> "pointers", gin |-> NoGin]

It(lp, len, tuple) == [lp |-> lp, off |-> 0, len |-> len, tuple |-> tuple]
None == [form |-> "none"]
Pointers == {It("unused", 0, None), It("dead", 0, None), [It("redirect", 0, None) EXCEPT !.off = 1]}
Heap(natts, hasnull, hoff) == [form |-> "heap", natts |-> natts, hasnull |-> hasnull, hoff |-> hoff]
HeapItems == Pointers \cup {It("normal", 28, Heap(1, FALSE, 24)), It("normal", 33, Heap(9, TRUE, 32)),
                            It("normal", 24, Heap(1600, FALSE, 24)), It("dead", 25, Heap(8, TRUE, 24))}
Index(size) == [form |-> "index", size |-> size]
IndexItems == Pointers \cup {It("normal", 8, Index(8)), It("dead", 16, Index(16)), It("normal", 24, Index(24))}
Inner(size, prefix, nodes) == [form |-> "inner", size |-> size, prefix |-> prefix, nodes |-> nodes]
InnerItems == {It("normal", 24, Inner(24, 0, <<8, 8>>)), It("normal", 32, Inner(32, 8, <<16>>)),
               It("normal", 16, Inner(0, 0, <<>>))}
LeafItems == {It("unused", 0, None), It("normal", 16, [form |-> "leaf", size |-> 16]),
              It("normal", 24, [form |-> "leaf", size |-> 24])}

Relations == {PageOf(k, its, {}) : k \in {"heap", "sequence"}, its \in UpTo(3, HeapItems)}
             \cup {PageOf(k, its, {}) : k \in {"btree", "hash", "gist"}, its \in UpTo(2, IndexItems)}
             \cup {PageOf("spgist", its, {}) : its \in UpTo(2, InnerItems)}
             \cup {PageOf("spgist", its, {"LEAF"}) : its \in UpTo(2, LeafItems)}
             \cup {[PageOf("btree", its, {}) EXCEPT !.last = c] :
                     its \in UpTo(1, IndexItems), c \in {1, MAX_BT_CYCLE_ID}}

(* Meta data where the items would be, and pages that hold other things.   *)
Behind(p, n) ==
  [p EXCEPT !.lower = 24 + n, !.content = "meta",
            !.items = [i \in 1..(n \div 4) |-> IF i = 1 THEN [It("0x02", 10, None) EXCEPT !.off = 12642] ELSE It("unused", 0, None)]]
Garbage(p, its) == [p EXCEPT !.items = its, !.lower = 24 + 4 * Len(its), !.content = "other"]
Metas == {Behind(PageOf("btree", <<>>, {"META"}), BTMetaSize),
          Behind([PageOf("gin", <<>>, {}) EXCEPT !.last = 8], GinMetaSize),
          Behind(PageOf("spgist", <<>>, {"META"}), 68)}
Others == {Garbage(PageOf("hash", <<>>, {"BITMAP"}), <<[It("0x03", 32767, None) EXCEPT !.off = 32767]>>),
           Garbage(PageOf("btree", <<>>, {"DELETED"}), <<[It("normal", 1, None) EXCEPT !.off = 2], It("unused", 0, None)>>),
           [PageOf("heap", <<>>, {}) EXCEPT !.kind = "new", !.lower = 0, !.upper = 0, !.special = 0, !.version = FALSE]}

(* Blocks that were cut or damaged.                                        *)
Base == {PageOf("heap", its, {}) : its \in UpTo(2, HeapItems)}
        \cup {PageOf("btree", its, {}) : its \in UpTo(1, IndexItems)}
        \cup {PageOf("spgist", <<it>>, {}) : it \in InnerItems}
        \cup {PageOf("sequence", <<>>, {}), PageOf("gin", <<>>, {})} \cup Metas
Cuts == {[p EXCEPT !.bytes = n, !.last = IF n < BlockSize THEN 65535 ELSE @] :
           p \in Base, n \in {1, 23, 24, 25, 28, 31, 32, 8000, 8160, 8176, 8184, 8191}}
Damages == UNION {{[p EXCEPT !.special = n] : n \in {0, 24, 8175, 8176, 8184, 8192, 8193, 65535}}
                  \cup {[p EXCEPT !.upper = n] : n \in {0, 24, 8193}}
                  \cup {[p EXCEPT !.version = FALSE], [p EXCEPT !.checksum = FALSE]}
                  \cup {[p EXCEPT !.lower = n, !.items = <<>>] : n \in {0, 19, 20, 23, 27}}
                  \cup {[p EXCEPT !.lower = 65535], [p EXCEPT !.last = 40000]}
                  : p \in Base}
BadItems == {PageOf("heap", <<it>>, {}) :
               it \in {It("normal", 23, Heap(1, FALSE, 24)), It("normal", 1, None),
                       It("normal", 28, Heap(9, TRUE, 24)), It("normal", 28, Index(28))}}
            \cup {[PageOf("heap", <<It("normal", 28, Heap(1, FALSE, 24))>>, {}) EXCEPT !.items[1].len = 9000]}
            \cup {PageOf("btree", <<it>>, {}) :
                    it \in {It("normal", 5, Index(5)), It("normal", 16, Index(24))}}
            \cup {PageOf("spgist", <<it>>, {}) :
                    it \in {It("normal", 40, Inner(40, 8, <<12, 8>>)), It("normal", 24, Inner(24, 3, <<8>>)),
                            It("normal", 16, Inner(16, 64, <<>>)), It("normal", 24, Inner(24, 0, <<64, 8>>)),
                            It("normal", 4, Inner(4, 0, <<>>))}}
            \cup {PageOf("spgist", <<It("normal", 12, [form |-> "leaf", size |-> 12])>>, {"LEAF"})}

(* GIN. *)
Tid(v) == uint64_to_itemptr(v)
Ordered(S) == {s \in UpTo(3, S) : s # <<>> /\ \A i \in 2..Len(s) : s[i - 1] < s[i]}
Lists == {[i \in DOMAIN s |-> Tid(s[i])] : s \in Ordered({1, 2, 5, 9, 25, 74, 1023, 4097, 8191})}
Cut2(s) == {<<SubSeq(s, 1, k), SubSeq(s, k + 1, Len(s))>> : k \in 1..(Len(s) - 1)}
GinPage(last, gin) == [PageOf("gin", <<>>, {}) EXCEPT !.last = last, !.content = "gin", !.gin = gin]

Flags == {0, 64}
DataLeaves ==
  {GinPage(131 + f, [NoGin EXCEPT !.segs = <<EncodeSegment(s)>>, !.lists = <<s>>]) : s \in Lists, f \in Flags}
  \cup UNION {{GinPage(131, [NoGin EXCEPT !.segs = <<EncodeSegment(c[1]), EncodeSegment(c[2])>>, !.lists = c]) :
                c \in Cut2(s)} : s \in Lists}
  \cup {GinPage(131, NoGin)}
  \cup {GinPage(3, [NoGin EXCEPT !.items = s, !.maxoff = Len(s)]) : s \in Lists}
Postings == {<<>>, <<[child |-> 3, key |-> Tid(9)]>>, <<[child |-> 3, key |-> Tid(9)], [child |-> 1, key |-> Tid(8191)]>>}
DataInner == {GinPage(1 + f, [NoGin EXCEPT !.items = s, !.maxoff = Len(s), !.right = Tid(17)]) : s \in Postings, f \in Flags}
Entry0 == [tree |-> FALSE, root |-> 0, compressed |-> FALSE, count |-> 0, items |-> <<>>, segs |-> <<>>, tid |-> Tid(0)]
Few == {<<Tid(1)>>, <<Tid(2), Tid(1023)>>, <<Tid(5), Tid(25), Tid(4097)>>}
Entries == {[Entry0 EXCEPT !.tree = TRUE, !.root = 7], [Entry0 EXCEPT !.compressed = TRUE]}
           \cup {[Entry0 EXCEPT !.compressed = TRUE, !.count = Len(s), !.items = s,
                                !.segs = <<EncodeSegment(s)>>] : s \in Few}
           \cup {[Entry0 EXCEPT !.count = Len(s), !.items = s] : s \in Few}
EntryLeaves == {GinPage(2 + f, [NoGin EXCEPT !.tuples = e]) : e \in UpTo(2, Entries), f \in Flags}
Downlinks(s) == [i \in DOMAIN s |-> [Entry0 EXCEPT !.tid = s[i]]]
EntryInner == {GinPage(f, [NoGin EXCEPT !.tuples = Downlinks(s)]) : s \in Few, f \in Flags}
ListPages == {GinPage(16 + f, [NoGin EXCEPT !.tuples = Downlinks(s), !.maxoff = n]) :
                s \in Few, n \in 0..1, f \in {0, 32}}
GinPages == DataLeaves \cup DataInner \cup EntryLeaves \cup EntryInner \cup ListPages
            \cup {GinPage(7, NoGin), GinPage(4, NoGin), GinPage(128, NoGin)}
            \cup {[p EXCEPT !.word = SEQUENCE_MAGIC] : p \in EntryInner}

Controls == {[PageOf("heap", <<>>, {}) EXCEPT !.kind = "control", !.bytes = n, !.version = v] :
               n \in {1, 11, 12, 295, 296}, v \in BOOLEAN}

AllPages == Relations \cup Metas \cup Others \cup Cuts \cup Damages \cup BadItems \cup GinPages \cup Controls
Opt(mode, format, detail, as, checksums) ==
  [mode |-> mode, format |-> format, detail |-> detail, as |-> as, checksums |-> checksums]
AllOptions == {Opt("format", f, d, "guess", TRUE) : f, d \in BOOLEAN}
              \cup {Opt("format", TRUE, TRUE, a, FALSE) : a \in {"index", "heap"}}
              \cup {Opt("raw", FALSE, FALSE, "guess", FALSE), Opt("binary", FALSE, FALSE, "guess", FALSE),
                    Opt("control", FALSE, FALSE, "guess", FALSE), Opt("control", TRUE, FALSE, "guess", FALSE)}
================================================================================
