-------------------------------- MODULE Examples --------------------------------
(***************************************************************************)
(* The programs the repository ships (examples/*/src/lib.rs), as inputs    *)
(* of the models, and what their tests say of them.                        *)
(*                                                                         *)
(* A portion of a graph is the nodes a function adds, with its wires       *)
(* <<source, target, input port>> (every wire leaves port 0) and its       *)
(* regions, all of them parallel and without constraints.  A refinement or *)
(* a condition is about the variable x; the description of a bound is its  *)
(* amount.                                                                 *)
(***************************************************************************)
EXTENDS Canonicalize, Layout, TrcFile, Verification

Portion(attr, wires, regions) == [attr |-> attr, wires |-> wires, regions |-> regions]
Together(portions) ==
    FoldLeft(LAMBDA all, p : Portion(all.attr ++ p.attr, all.wires \o p.wires, all.regions \o p.regions),
             Portion(EmptyMap, <<>>, <<>>), portions)

\* The graph that a builder makes of its portions, its edges and regions numbered.
Built(portions) ==
    LET all   == Together(portions)
        nodes == DOMAIN all.attr
        wires == all.wires
        Ends(i)   == [source |-> wires[i][1], target |-> wires[i][2]]
        Lists(end) == [n \in nodes |-> [i \in DOMAIN wires |-> IF wires[i][end] = n THEN 1 ELSE 0]]
        Housing(S) == [n \in nodes |-> IF n \in S THEN 1 ELSE 0]
        homes == [r \in DOMAIN all.regions |-> Housing(all.regions[r])]
    IN [graph |-> [nodes |-> nodes, edges |-> [i \in DOMAIN wires |-> Ends(i)],
                   outgoing |-> Lists(1), incoming |-> Lists(2),
                   regions |-> [r \in DOMAIN homes |-> [children |-> homes[r], parent |-> None]],
                   regionChildren |-> homes, regionParent |-> EmptyMap,
                   nodeRegion |-> [n \in UNION {all.regions[r] : r \in DOMAIN homes} |->
                                     CHOOSE r \in DOMAIN homes : n \in all.regions[r]]],
        attr |-> all.attr,
        ports |-> [i \in DOMAIN wires |-> [from |-> 0, to |-> wires[i][3]]],
        kindOf |-> [r \in DOMAIN homes |-> "Parallel"], constrained |-> {}]

F32   == Float(32)
Truth == Plain("Bool")
Within(t, lo, hi) == Refined(t, InRange("x", lo, hi))
Costs(time, stack) == <<time, "no heap", stack>>
Pure(bounds)       == Contract(<<>>, <<>>, bounds, <<>>, {"Pure"})
Does(bounds, effect) == Contract(<<>>, <<>>, bounds, <<>>, {effect})

Reads(t, effect)         == Node("Read", Sig(<<>>, <<t>>), Does(<<>>, effect), None)
Writes(t, bounds, effect) == Node("Write", Sig(<<t>>, <<>>), Does(bounds, effect), None)
Constant(t, value)       == Node("Literal", Sig(<<>>, <<t>>), None, value)
Takes(kind, ins, t, contract) == Node(kind, Sig(ins, <<t>>), contract, None)
Binary(kind, t)          == Takes(kind, <<t, t>>, t, None)
Compares(kind)           == Takes(kind, <<F32, F32>>, Truth, None)
Chooses(contract)        == Takes("Select", <<Truth, F32, F32>>, F32, contract)

-----------------------------------------------------------------------------
\* e2e-arithmetic: (10 + 32) * 2 - 5
Arithmetic ==
    LET i32 == IntType(32, TRUE)
    IN Built(<<Portion(
         [lit_10 |-> Constant(i32, Lit(10)), lit_32 |-> Constant(i32, Lit(32)),
          lit_2  |-> Constant(i32, Lit(2)),  lit_5  |-> Constant(i32, Lit(5)),
          add |-> Binary("Add", i32), mul |-> Binary("Mul", i32), sub |-> Binary("Sub", i32)],
         <<<<"lit_10", "add", 0>>, <<"lit_32", "add", 1>>, <<"add", "mul", 0>>, <<"lit_2", "mul", 1>>,
           <<"mul", "sub", 0>>, <<"lit_5", "sub", 1>>>>, <<>>)>>)

\* checksum: sum the bytes, fold the carries twice, invert, cut to 16 bits
ChecksumNodes ==
    LET u8  == IntType(8, FALSE)
        u16 == IntType(16, FALSE)
        u32 == IntType(32, FALSE)
    IN [input_data |-> Reads(u8, "IO INPUT_STREAM"), init_acc |-> Constant(u32, Lit(0)),
        widen    |-> Takes("Conversion", <<u8>>, u32, None), acc_add |-> Binary("Add", u32),
        shift_16 |-> Constant(u32, Lit(16)), mask_ffff |-> Constant(u32, Lit(65535)),
        high     |-> Binary("ShiftRight", u32), low |-> Binary("And", u32),
        combined |-> Binary("Add", u32), carry2 |-> Binary("ShiftRight", u32),
        with_carry |-> Binary("Add", u32), not_result |-> Takes("Not", <<u32>>, u32, None),
        truncate |-> Takes("Conversion", <<u32>>, Within(u16, 0, 65535), Pure(Costs("12 us", "64 bytes"))),
        output   |-> Writes(u16, <<>>, "IO OUTPUT")]
ChecksumWires ==
    <<<<"input_data", "widen", 0>>, <<"widen", "acc_add", 0>>, <<"init_acc", "acc_add", 1>>,
      <<"acc_add", "high", 0>>, <<"shift_16", "high", 1>>,
      <<"acc_add", "low", 0>>, <<"mask_ffff", "low", 1>>,
      <<"high", "combined", 0>>, <<"low", "combined", 1>>,
      <<"combined", "carry2", 0>>, <<"shift_16", "carry2", 1>>,
      <<"combined", "with_carry", 0>>, <<"carry2", "with_carry", 1>>,
      <<"with_carry", "not_result", 0>>, <<"not_result", "truncate", 0>>,
      <<"truncate", "output", 0>>>>
Checksum == Built(<<Portion(ChecksumNodes, ChecksumWires, <<>>)>>)

\* pid-controller: gains times the error, summed and kept within -100..100
PidNodes ==
    LET post == Contract(<<>>, <<InRange("x", -100, 100)>>, Costs("10 us", "128 bytes"), <<>>, {"Pure"})
    IN [setpoint |-> Constant(F32, Lit(10)), measurement |-> Constant(F32, FloatLit(15, 2)),
        kp |-> Constant(F32, Lit(2)), ki |-> Constant(F32, FloatLit(1, 2)),
        kd |-> Constant(F32, FloatLit(1, 10)),
        max_output |-> Constant(F32, Lit(100)), min_output |-> Constant(F32, Lit(-100)),
        error |-> Binary("Sub", F32), p_term |-> Binary("Mul", F32), i_term |-> Binary("Mul", F32),
        d_term |-> Binary("Mul", F32), pi_sum |-> Binary("Add", F32), pid_raw |-> Binary("Add", F32),
        gt_max |-> Compares("Gt"), lt_min |-> Compares("Lt"),
        clamped_high |-> Chooses(None), output |-> Chooses(post),
        exit_code |-> Takes("Conversion", <<F32>>, IntType(32, TRUE), None)]
PidWires ==
    <<<<"setpoint", "error", 0>>, <<"measurement", "error", 1>>, <<"kp", "p_term", 0>>,
      <<"error", "p_term", 1>>, <<"ki", "i_term", 0>>, <<"error", "i_term", 1>>,
      <<"kd", "d_term", 0>>, <<"error", "d_term", 1>>, <<"p_term", "pi_sum", 0>>,
      <<"i_term", "pi_sum", 1>>, <<"pi_sum", "pid_raw", 0>>, <<"d_term", "pid_raw", 1>>,
      <<"pid_raw", "gt_max", 0>>, <<"max_output", "gt_max", 1>>, <<"pid_raw", "lt_min", 0>>,
      <<"min_output", "lt_min", 1>>, <<"gt_max", "clamped_high", 0>>,
      <<"max_output", "clamped_high", 1>>, <<"pid_raw", "clamped_high", 2>>,
      <<"lt_min", "output", 0>>, <<"min_output", "output", 1>>,
      <<"clamped_high", "output", 2>>, <<"output", "exit_code", 0>>>>
PidController == Built(<<Portion(PidNodes, PidWires, <<>>)>>)

-----------------------------------------------------------------------------
(* foc-controller: field-oriented control of a motor *)

build_adc_inputs ==
    Portion([ia |-> Reads(Within(F32, -50, 50), "IO ADC1_CH0"),
             ib |-> Reads(Within(F32, -50, 50), "IO ADC1_CH1"),
             ic |-> Reads(Within(F32, -50, 50), "IO ADC1_CH2"),
             vbus |-> Reads(Within(F32, 0, 60), "IO ADC1_CH3"),
             temp |-> Reads(Within(F32, 0, 150), "IO ADC1_CH4")], <<>>, <<>>)

\* One over the square root of three is cut to five digits.
build_clarke_transform ==
    LET bound == Pure(Costs("2 us", "32 bytes"))
        attr == [zero |-> Constant(F32, Lit(0)), i_alpha |-> Takes("Add", <<F32, F32>>, F32, bound),
                 two |-> Constant(F32, Lit(2)), one_over_sqrt3 |-> Constant(F32, FloatLit(57735, 100000)),
                 two_ib |-> Binary("Mul", F32), ia_plus_2ib |-> Binary("Add", F32),
                 i_beta |-> Takes("Mul", <<F32, F32>>, F32, bound)]
    IN Portion(attr,
             <<<<"ia", "i_alpha", 0>>, <<"zero", "i_alpha", 1>>, <<"two", "two_ib", 0>>,
               <<"ib", "two_ib", 1>>, <<"ia", "ia_plus_2ib", 0>>, <<"two_ib", "ia_plus_2ib", 1>>,
               <<"ia_plus_2ib", "i_beta", 0>>, <<"one_over_sqrt3", "i_beta", 1>>>>,
             <<DOMAIN attr>>)

build_park_transform ==
    LET bound == Pure(Costs("3 us", "48 bytes"))
        Sum   == Takes("Add", <<F32, F32>>, F32, bound)
        Call  == Takes("FFICall", <<F32>>, F32, bound)
    IN Portion([theta |-> Reads(Within(F32, 0, 628), "IO ENCODER_TIM3"),
                cos_theta |-> Call, sin_theta |-> Call,
                alpha_cos |-> Binary("Mul", F32), beta_sin |-> Binary("Mul", F32), id |-> Sum,
                neg_alpha |-> Binary("Mul", F32), neg_one |-> Constant(F32, Lit(-1)),
                neg_alpha_sin |-> Binary("Mul", F32), beta_cos |-> Binary("Mul", F32), iq |-> Sum],
             <<<<"theta", "cos_theta", 0>>, <<"theta", "sin_theta", 0>>,
               <<"i_alpha", "alpha_cos", 0>>, <<"cos_theta", "alpha_cos", 1>>,
               <<"i_beta", "beta_sin", 0>>, <<"sin_theta", "beta_sin", 1>>,
               <<"alpha_cos", "id", 0>>, <<"beta_sin", "id", 1>>,
               <<"i_alpha", "neg_alpha", 0>>, <<"neg_one", "neg_alpha", 1>>,
               <<"neg_alpha", "neg_alpha_sin", 0>>, <<"sin_theta", "neg_alpha_sin", 1>>,
               <<"i_beta", "beta_cos", 0>>, <<"cos_theta", "beta_cos", 1>>,
               <<"neg_alpha_sin", "iq", 0>>, <<"beta_cos", "iq", 1>>>>, <<>>)

\* One controller for each of two axes, whose name is put before a node's role.
build_pid_controller(axis, measured) ==
    LET Its(role) == axis \o role
        Part(role) == CASE role = "setpoint" -> Constant(F32, Lit(0))
                        [] role = "kp" -> Constant(F32, Lit(1))
                        [] role = "ki" -> Constant(F32, FloatLit(1, 10))
                        [] role = "kd" -> Constant(F32, FloatLit(1, 100))
                        [] role = "error" -> Binary("Sub", F32)
                        [] role \in {"p_term", "i_term", "d_term"} -> Binary("Mul", F32)
                        [] role \in {"pi_sum", "pid_sum"} -> Binary("Add", F32)
                        [] role = "clamp" -> Takes("Select", <<F32>>, F32, Pure(Costs("4 us", "64 bytes")))
        roles == {"setpoint", "kp", "ki", "kd", "error", "p_term", "i_term", "d_term",
                  "pi_sum", "pid_sum", "clamp"}
        Between(s, t, port) == <<Its(s), Its(t), port>>
    IN Portion([n \in {Its(role) : role \in roles} |-> Part(CHOOSE role \in roles : n = Its(role))],
             <<Between("setpoint", "error", 0), <<measured, Its("error"), 1>>,
               Between("kp", "p_term", 0), Between("error", "p_term", 1),
               Between("ki", "i_term", 0), Between("error", "i_term", 1),
               Between("kd", "d_term", 0), Between("error", "d_term", 1),
               Between("p_term", "pi_sum", 0), Between("i_term", "pi_sum", 1),
               Between("pi_sum", "pid_sum", 0), Between("d_term", "pid_sum", 1),
               Between("pid_sum", "clamp", 0)>>, <<>>)

\* The fault state has no signature.
SafetyNodes ==
    LET bounds == Costs("10 us", "128 bytes")
    IN [oc_thresh |-> Constant(F32, Lit(45)), ov_thresh |-> Constant(F32, Lit(55)),
        uv_thresh |-> Constant(F32, Lit(10)), ot_thresh |-> Constant(F32, Lit(140)),
        oc_a |-> Compares("Gt"), oc_b |-> Compares("Gt"), oc_c |-> Compares("Gt"),
        overvoltage |-> Compares("Gt"), undervoltage |-> Compares("Lt"), overtemp |-> Compares("Gt"),
        oc_ab |-> Binary("Or", Truth), oc_any |-> Binary("Or", Truth),
        fault_1 |-> Binary("Or", Truth), fault_2 |-> Binary("Or", Truth),
        all_faults |-> Binary("Or", Truth),
        fault_state |-> Node("Switch", None, Pure(bounds), None),
        pwm_enabled |-> Takes("Select", <<Truth>>, Truth, None),
        gpio_write |-> Writes(Truth, bounds, "IO GPIO_FAULT_PIN")]
SafetyWires ==
    <<<<"ia", "oc_a", 0>>, <<"oc_thresh", "oc_a", 1>>, <<"ib", "oc_b", 0>>,
      <<"oc_thresh", "oc_b", 1>>, <<"ic", "oc_c", 0>>, <<"oc_thresh", "oc_c", 1>>,
      <<"oc_a", "oc_ab", 0>>, <<"oc_b", "oc_ab", 1>>, <<"oc_ab", "oc_any", 0>>,
      <<"oc_c", "oc_any", 1>>, <<"vbus", "overvoltage", 0>>, <<"ov_thresh", "overvoltage", 1>>,
      <<"vbus", "undervoltage", 0>>, <<"uv_thresh", "undervoltage", 1>>,
      <<"temp", "overtemp", 0>>, <<"ot_thresh", "overtemp", 1>>,
      <<"oc_any", "fault_1", 0>>, <<"overvoltage", "fault_1", 1>>, <<"fault_1", "fault_2", 0>>,
      <<"undervoltage", "fault_2", 1>>, <<"fault_2", "all_faults", 0>>,
      <<"overtemp", "all_faults", 1>>, <<"all_faults", "fault_state", 0>>,
      <<"fault_state", "gpio_write", 0>>, <<"fault_state", "pwm_enabled", 0>>>>
build_safety_monitor == Portion(SafetyNodes, SafetyWires, <<{"oc_a", "oc_b", "oc_c"}>>)

build_pwm_outputs ==
    LET Duty == Takes("Conversion", <<F32>>, F32, None)
        Pwm(effect) == Writes(F32, Costs("1 us", "16 bytes"), effect)
        Channel(duty, gate, pwm) ==
            <<<<"inv_park", duty, 0>>, <<"pwm_enabled", gate, 0>>, <<duty, gate, 1>>,
              <<"zero_duty", gate, 2>>, <<gate, pwm, 0>>>>
    IN Portion([inv_park |-> Takes("Add", <<F32, F32>>, F32, Pure(Costs("2 us", "32 bytes"))),
                duty_a |-> Duty, duty_b |-> Duty, duty_c |-> Duty, zero_duty |-> Constant(F32, Lit(0)),
                gate_a |-> Chooses(None), gate_b |-> Chooses(None), gate_c |-> Chooses(None),
                pwm_a |-> Pwm("IO PWM_TIM1_CH1"), pwm_b |-> Pwm("IO PWM_TIM1_CH2"),
                pwm_c |-> Pwm("IO PWM_TIM1_CH3")],
             <<<<"pid_d_clamp", "inv_park", 0>>, <<"pid_q_clamp", "inv_park", 1>>>>
             \o Channel("duty_a", "gate_a", "pwm_a") \o Channel("duty_b", "gate_b", "pwm_b")
             \o Channel("duty_c", "gate_c", "pwm_c"), <<>>)

FocController ==
    Built(<<build_adc_inputs, build_clarke_transform, build_park_transform,
            build_pid_controller("pid_d_", "id"), build_pid_controller("pid_q_", "iq"),
            build_safety_monitor, build_pwm_outputs>>)

-----------------------------------------------------------------------------
(* What the tests of the examples say, and what they do not *)

\* One of the orders the nodes may have.
AnOrder(p) ==
    LET After[listed \in Seq(p.graph.nodes)] ==
            LET next == NextInOrder(p, ToSet(listed))
            IN IF next = {} THEN listed ELSE After[Append(listed, CHOOSE n \in next : TRUE)]
    IN After[<<>>]

Obliges(p) == Len(Collected(p))
NothingToProve(p) == \A i \in DOMAIN Collected(p) : Trivial(Collected(p)[i].predicate)

\* The counts, the order and the way through a file the tests ask for; the
\* memory the motor controller needs on the board it is made for; and the
\* obligations: every one of the motor controller's and of the checksum's is the
\* literal TRUE.  What no test looks at: the motor controller's effects are wrong
\* in three places, and the four literals of the arithmetic example, which have
\* four values, are duplicates of one another.
ExamplesAsTested ==
    /\ Counts(Arithmetic) = <<7, 6, 0>> /\ Counts(Checksum) = <<14, 16, 0>>
    /\ Counts(PidController) = <<18, 23, 0>> /\ Counts(FocController) = <<74, 92, 2>>
    /\ \A p \in {Arithmetic, Checksum, PidController, FocController} :
          /\ WellFormed(p) /\ BadLinearity(p) = {} /\ Mismatches(p) = {}
          /\ ToSet(AnOrder(p)) = p.graph.nodes /\ FromBytes(ToBytes(p)) = p
    /\ \A p \in {Arithmetic, Checksum, PidController} : WellTyped(p)
    /\ BadEffects(FocController) = {"i_alpha", "cos_theta", "sin_theta"}
    /\ Overflows(LayoutOf(FocController, AnOrder(FocController), Builtin[2]), Builtin[2]) = {}
    /\ Obliges(Arithmetic) = 0 /\ Obliges(Checksum) = 3
    /\ Obliges(PidController) = 4 /\ Obliges(FocController) = 42
    /\ NothingToProve(Checksum) /\ NothingToProve(FocController) /\ ~NothingToProve(PidController)
    /\ Cardinality({ContentOf(Arithmetic, n) : n \in {"lit_10", "lit_32", "lit_2", "lit_5"}}) = 1
ASSUME ExamplesAsTestedAssumption == ExamplesAsTested
=============================================================================
