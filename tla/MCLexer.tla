------------------------------ MODULE MCLexer --------------------------------
(* Small databases with every short text, and the repository's own one.     *)
EXTENDS Lexer

\* The letters of a string.
Letters(s) == [k \in 1 .. Len(s) |-> SubSeq(s, k, k)]

MCAlphabet == Letters("\t\n #()*+,-.0123456789:;?@ABCDEFGHIJKLMNOPQRSTUVWXYZ[\\]^_abcdefghijklmnopqrstuvwxyz")
Digits  == Range(Letters("0123456789"))
Name    == Range(Letters("ABCDEFGHIJKLMNOPQRSTUVWXYZ_.abcdefghijklmnopqrstuvwxyz"))
MCHeapGroups == { {}, Chars }

One(set) == Group(set, "NOP")
Star(set) == Group(set, "ZOM")
More(set) == Group(set, "OOM")
Opt(set) == Group(set, "ZOO")
Literal(s) == [k \in 1 .. Len(s) |-> One({SubSeq(s, k, k)})]
ButNot(set) == Chars \ set

\* An expression and the groups it is written for.
Expr(s, groups) == [expr |-> Letters(s), groups |-> groups]
Exprs ==
    LET a == {"a"}  b == {"b"}  m == {"-"}
    IN  << Expr("ab", << One(a), One(b) >>),
          Expr("a*ab", << Star(a), One(a), One(b) >>),
          Expr("b+b", << More(b), One(b) >>),
          Expr("a*a+\\-", << Star(a), More(a), One(m) >>),
          Expr("a+b+-", << More(a), More(b), One(m) >>),
          Expr("[a-c]+", << More({"a", "b", "c"}) >>),
          Expr("[\\-+]?b", << Opt({"-", "+"}), One(b) >>),
          Expr("[^ab]?b", << Opt(ButNot({"a", "b"})), One(b) >>),
          Expr("^[a\\n]a?b", << One(ButNot({"a", Newline})), Opt(a), One(b) >>),
          Expr("^ab*-", << One(ButNot(a)), Star(b), One(m) >>),
          Expr("b[\\]\\-]*a", << One(b), Star({"]", "-"}), One(a) >>),
          Expr("a.-", << One(a), One(Chars), One(m) >>) >>

\* Two expressions and the newline, with comments and blanks around.
Case(x, y) ==
    LET line(type, expr) == << type, "\t", " " >> \o expr \o << Newline >>
    IN  [text |-> Letters("#a b\n \n") \o line("x", x.expr)
                    \o Letters("e#x ab\n") \o line("y", y.expr)
                    \o Letters("\tz \\n+"),
         meaning |-> << [name |-> <<"x">>, groups |-> x.groups],
                        [name |-> <<"y">>, groups |-> y.groups],
                        [name |-> <<"z">>, groups |-> << More({Newline}) >>] >>]
ShortTexts ==
    {Append(w, Newline) : w \in UNION {[1 .. n -> {"a", "b", "-"}] : n \in 0 .. 4}}

-----------------------------------------------------------------------------
(* database.txt, with one blank between a name and its expression. *)

Literals(list) ==
    [k \in 1 .. Len(list) |->
        << list[k][1], list[k][2], Literal(list[k][2]) >>]
NameRest == Name \cup Digits
Database ==
    << <<"blank", "[ \\t]+", << More(Blanks) >> >>,
       <<"newline", "\\n+", << More({Newline}) >> >>,
       <<"comment", ";[^\\n]*", << One({";"}), Star(ButNot({Newline})) >> >>,
       <<"comma", ",", << One({","}) >> >>,
       <<"label", "[a-zA-Z_\\.][a-zA-Z_0-9\\.]*:",
         << One(Name), Star(NameRest), One({":"}) >> >> >>
    \o Literals(<<
    <<"insn::NOP", "nop">>, <<"insn::ADDI", "addi">>, <<"insn::ADD", "add">>,
    <<"insn::ANDI", "andi">>, <<"insn::AND", "and">>, <<"insn::BEQ", "beq">>,
    <<"insn::SLLI", "slli">>, <<"insn::SRLI", "srli">>, <<"insn::SLL", "sll">>,
    <<"insn::SRL", "srl">>, <<"insn::ORI", "ori">>, <<"insn::OR", "or">>,
    <<"insn::BNE", "bne">>, <<"insn::XORI", "xori">>, <<"insn::XOR", "xor">>,
    <<"insn::BGEU", "bgeu">>, <<"insn::BGE", "bge">>, <<"insn::SLTIU", "sltiu">>,
    <<"insn::SLTI", "slti">>, <<"insn::SLTU", "sltu">>, <<"insn::SLT", "slt">>,
    <<"insn::SRAI", "srai">>, <<"insn::SRA", "sra">>, <<"insn::LUI", "lui">>,
    <<"insn::AUIPC", "auipc">>, <<"insn::BLTU", "bltu">>, <<"insn::BLT", "blt">>,
    <<"insn::LBU", "lbu">>, <<"insn::LHU", "lhu">>, <<"insn::LB", "lb">>,
    <<"insn::LH", "lh">>, <<"insn::LW", "lw">>, <<"insn::SB", "sb">>,
    <<"insn::SW", "sw">>, <<"insn::SH", "sh">>, <<"insn::JALR", "jalr">>,
    <<"insn::JAL", "jal">>, <<"insn::SUB", "sub">>, <<"unsinsn::J", "j">>,
    <<"unsinsn::LI", "li">>, <<"unsinsn::MV", "mv">>, <<"unsinsn::BLE", "ble">> >>)
    \o << <<"integer::dec", "[\\-+]?[0-9]+",
            << Opt({"-", "+"}), More(Digits) >> >>,
          <<"symbole::register", "r[0-9]+", << One({"r"}), More(Digits) >> >>,
          <<"symbole::register", "zero", Literal("zero") >>,
          <<"symbole::register", "pc", Literal("pc") >>,
          <<"symbole::register", "s[01p]",
            << One({"s"}), One({"0", "1", "p"}) >> >>,
          <<"symbole::register", "a[0-7]",
            << One({"a"}), One(Digits \ {"8", "9"}) >> >>,
          <<"symbole::register", "ra", Literal("ra") >>,
          <<"symbole::label", "[a-zA-Z_\\.][a-zA-Z_0-9\\.]*",
            << One(Name), Star(NameRest) >> >>,
          <<"paren::left", "(", << One({"("}) >> >>,
          <<"paren::right", ")", << One({")"}) >> >> >>

FullCase ==
    [text |-> FlattenSeq([k \in DOMAIN Database |->
        Letters(Database[k][1]) \o << "\t" >> \o Letters(Database[k][2])
            \o << Newline >>]),
     meaning |-> [k \in DOMAIN Database |->
        [name |-> Letters(Database[k][1]), groups |-> Database[k][3]]]]

\* Every mnemonic with every ending that makes another, lines of the test
\* programs, names that begin like something else, and what nothing matches
\* (~ stands for a letter with an accent).
FullTexts ==
    {Letters(Database[k][2] \o e) : k \in 6 .. 47,
        e \in {"\n", "iu r1\n"}}
    \cup {Letters(t) : t \in
        { "loop: lw a0,-4(sp) ;xi\n\n", "add r1,r2,r32\nnop;\n \tnop\n",
          "j jump\njump:\n", "begin.1: beq ra,s0,begin.1\n", "s1 sp_0 s0\n",
          "a8 r r12 zeros +5 - 5\n", ";\n; caf~\n", "nop @\n", "0x1\n",
          "li\tr5 , -5 \n", "range: j range\n", "addaddi 1\n" }}

-----------------------------------------------------------------------------
\* A file is the repository's database or a pair of expressions.
Full == << 0, 0 >>
MCDatabases == {Full} \cup ((DOMAIN Exprs) \X (DOMAIN Exprs))
Files ==
    [d \in MCDatabases |->
        IF d = Full THEN FullCase ELSE Case(Exprs[d[1]], Exprs[d[2]])]
MCFileText == [d \in MCDatabases |-> Files[d].text]
MCMeaning == [d \in MCDatabases |-> Files[d].meaning]
MCTexts ==
    [d \in MCDatabases |-> IF d = Full THEN FullTexts ELSE ShortTexts]

\* The end of a text that has no newline: a register without its number.
CutDatabases == {Full}
CutFileText == [d \in CutDatabases |-> Letters("reg r[0-9]+\n")]
CutMeaning ==
    [d \in CutDatabases |->
        << [name   |-> Letters("reg"),
            groups |-> << One({"r"}), More(Digits) >>] >>]
CutTexts == [d \in CutDatabases |-> {Letters("r1r")}]
====
