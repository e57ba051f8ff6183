------------------------------ MODULE ReadingsMC ------------------------------
(* Readings with the kinds of AMD card its source names. *)
EXTENDS Readings

(* The files the kinds lack: a discrete card with an average power only, and an
   APU (Strix Halo) with an input power, no product name and no fan. *)
Discrete == {"power1_input", "model"}
Apu == {"product_name", "model", "power1_average", "freq2_input", "pwm1",
        "fan1_input", "fan1_max", "temp2_input", "temp3_input", "unique_id"}
BothKinds == {Discrete, Apu}

(* Another vendor's card has the files of any PCI device and no amdgpu ones. *)
OtherVendor == {"gpu_busy_percent", "mem_info_vram_total", "mem_info_vram_used",
                "mem_info_gtt_used", "mem_info_gtt_total", "pp_dpm_sclk", "pp_dpm_mclk",
                "temp1_input", "temp2_input", "temp3_input", "power1_average", "power1_input",
                "power1_cap", "power1_cap_max", "freq1_input", "freq2_input", "in0_input",
                "in1_input", "pwm1", "fan1_input", "fan1_max", "unique_id", "product_name",
                "model", "device in pci.ids"}
===============================================================================
